---- MODULE Spec2Model ----
(***************************************************************************)
(* A model of the virtual loopback audio driver (SurgeAudioDriver): the    *)
(* driver state record, the I/O engine with its ring buffer, and the       *)
(* property dispatcher.                                                    *)
(*                                                                         *)
(* Float32 samples and volume scalars are fixed-point integers in units of *)
(* 1/F_ONE; every value the model multiplies is a dyadic rational whose    *)
(* product is exact in Float32 and in the fixed-point form alike.          *)
(***************************************************************************)
EXTENDS Integers, Sequences, FiniteSets, TLC

(***************************************************************************)
(* Program constants (SurgeAudioDriver.h)                                  *)
(***************************************************************************)
kObjectID_PlugIn == 1
kObjectID_Device == 2
kObjectID_Stream_Input == 3
kObjectID_Stream_Output == 4
kObjectID_Volume_Input_Master == 5
kObjectID_Volume_Output_Master == 6
kObjectID_Mute_Input_Master == 7
kObjectID_Mute_Output_Master == 8
kObjectID_DataSource_Input == 9
kObjectID_DataSource_Output == 10

kSampleRate_Default == 48000
kBitsPerChannel == 32
kBytesPerChannel == kBitsPerChannel \div 8
kChannelsPerFrame == 2
kBytesPerFrame == kBytesPerChannel * kChannelsPerFrame
kLatency_Frame_Size == 512

\* The fixed-point image of the Float32 value 1.0f.
F_ONE == 16
F_HALF == F_ONE \div 2

(***************************************************************************)
(* Bounds of the model                                                     *)
(***************************************************************************)
\* The number of slots of the ring: kRingBufferFrameSize * kBytesPerFrame =
\* 131072 in the source, scaled down so that the ring wraps and overruns
\* within a few operations.
kRingBufferSize == 8

\* Largest ioBufferFrameSize the host passes to DoIOOperation.
MaxFrames == 2
\* Frames written (and frames read) per session before the host stops.
MaxSessionFrames == 5
\* Clients the host starts IO for at the same time.
MaxClients == 2
\* Steps the host clock takes.
MaxTicks == 4
\* References the host takes on a driver beyond the factory's.
MaxRefs == 3
\* Release calls the host makes beyond the references it took.
MaxExtraReleases == 2
\* RING_BUFFER_FRAMES of the shared-memory variant (48000 * 2 in the source),
\* and the largest frame count of one of its I/O cycles, which exceeds it.
RING_BUFFER_FRAMES == 4
MaxRegionFrames == 5

FrameSizes == 1..MaxFrames
SampleInputs == {F_HALF, F_ONE}
VolumeInputs == {F_HALF, F_ONE}

VARIABLES
    sampleRate,               \* gDriverState.sampleRate
    ticksPerFrame,            \* gDriverState.ticksPerFrame
    deviceIsRunning,          \* gDriverState.deviceIsRunning
    inputStreamIsActive,      \* gDriverState.inputStreamIsActive
    outputStreamIsActive,     \* gDriverState.outputStreamIsActive
    inputVolume,              \* gDriverState.inputVolume
    outputVolume,             \* gDriverState.outputVolume
    ringBuffer,               \* gDriverState.ringBuffer, slots 0..kRingBufferSize-1
    ringBufferWritePosition,  \* gDriverState.ringBufferWritePosition
    ringBufferReadPosition,   \* gDriverState.ringBufferReadPosition
    anchorHostTime,           \* gDriverState.anchorHostTime
    anchorSampleTime,         \* gDriverState.anchorSampleTime
    hostClock,                \* what mach_absolute_time() returns
    call,                     \* the call the host made last, with what it returned
    lastZeroTimeStamp,        \* history: what GetZeroTimeStamp returned last
    gDriverRefCount,          \* gDriverRefCount
    ringBufferFreed,          \* gDriverState.ringBuffer has been freed (is NULL)
    g_ref_count,              \* shared-memory variant: g_ref_count
    g_driver_state,           \* shared-memory variant: g_driver_state
    sharedRegion,             \* shared-memory variant: the named shared region
    refHistory,               \* history: AddRef / Release / teardown counts per driver
    loaded,                   \* which of the two plug-ins the host has loaded
    isCapturing_,             \* capture client: AudioCaptureAddon::isCapturing_
    captureThread_,           \* capture client: the thread captureThread_ owns
    captureThreads,           \* capture client: where each capture thread is
    js,                       \* capture client: the JavaScript thread's position
    tsfnCalls,                \* capture client: callbacks queued on tsfn_
    thread,                   \* each thread's position in the call it is making
    ringBufferMutex,          \* the thread that holds gDriverState.ringBufferMutex
    ioClients,                \* history: StartIO calls not yet matched by a StopIO
    framesWritten,            \* history: frames written since the ring was reset
    framesRead,               \* history: frames read since the ring was reset
    shadow                    \* history: per slot, what the host wrote there last

driverVars == <<sampleRate, ticksPerFrame, deviceIsRunning, inputStreamIsActive,
                outputStreamIsActive, inputVolume, outputVolume>>
ringVars == <<ringBuffer, ringBufferWritePosition, ringBufferReadPosition>>
timeVars == <<anchorHostTime, anchorSampleTime, hostClock, lastZeroTimeStamp>>
histVars == <<ioClients, framesWritten, framesRead, shadow>>
surgeRefVars == <<gDriverRefCount, ringBufferFreed>>
variantVars == <<g_ref_count, g_driver_state, sharedRegion>>
captureVars == <<isCapturing_, captureThread_, captureThreads, js, tsfnCalls>>
plugInVars == <<surgeRefVars, variantVars, refHistory, loaded, captureVars>>
threadVars == <<thread, ringBufferMutex>>
vars == <<driverVars, ringVars, timeVars, call, histVars, plugInVars, threadVars>>

Slots == 0..(kRingBufferSize - 1)

\* Float32 multiplication on the fixed-point image.
FMul(a, b) == (a * b) \div F_ONE

\* mach_timebase_info: numer/denom of the platform's tick length in ns.
TimebaseNumer == 1
TimebaseDenom == 1

\* ticksPerFrame = (UInt64)(nsPerFrame / nsPerTick), nsPerFrame = 1e9 / rate.
TicksPerFrame(rate) == (1000000000 * TimebaseDenom) \div (rate * TimebaseNumer)

NoSample == [n |-> -1, s |-> 0, ov |-> F_ONE]
ZeroRing == [i \in Slots |-> 0]
EmptyShadow == [i \in Slots |-> NoSample]
NoCall == [op |-> "None"]
NoTimeStamp == [valid |-> FALSE, sameSession |-> FALSE, outSampleTime |-> 0,
                outHostTime |-> 0, outSeed |-> 0, anchorHostTime |-> 0,
                ticksPerFrame |-> 0]

\* The state InitializeDriverState leaves (the ring is calloc'ed).
InitializeDriverState ==
    /\ sampleRate = kSampleRate_Default
    /\ ticksPerFrame = TicksPerFrame(kSampleRate_Default)
    /\ deviceIsRunning = FALSE
    /\ inputStreamIsActive = TRUE
    /\ outputStreamIsActive = TRUE
    /\ inputVolume = F_ONE
    /\ outputVolume = F_ONE
    /\ ringBuffer = ZeroRing
    /\ ringBufferWritePosition = 0
    /\ ringBufferReadPosition = 0
    /\ anchorHostTime = 0
    /\ anchorSampleTime = 0

NoRefs == [adds |-> 0, releases |-> 0, balanced |-> TRUE, teardowns |-> 0]

\* The shared region before AudioDriver_CreateSharedMemory has made it.
NoRegion ==
    [linked |-> FALSE, active |-> FALSE, sample_rate |-> 0, channels |-> 0,
     frame_size |-> 0, write_position |-> 0, read_position |-> 0,
     buffer |-> [j \in 0..(RING_BUFFER_FRAMES - 1) |-> 0]]

\* The shared-memory variant when its factory has returned: statics are zero.
AudioDriverPlugInFactory ==
    /\ g_ref_count = 0
    /\ g_driver_state = [shared_memory |-> "NULL", is_capture_active |-> FALSE,
                         is_device_created |-> FALSE]
    /\ sharedRegion = NoRegion

\* What calloc can return to InitializeDriverState.
calloc_Results == {"allocated", "NULL"}

\* SurgeAudioDriverPlugInFactory: the state is initialised, with the ring
\* pointer as calloc returned it and not looked at, and the factory holds the
\* first reference and returns the interface.
SurgeAudioDriverPlugInFactoryWith(calloc_result) ==
    /\ InitializeDriverState
    /\ ringBufferFreed = (calloc_result = "NULL")
    /\ gDriverRefCount = 1

SurgeAudioDriverPlugInFactory == SurgeAudioDriverPlugInFactoryWith("allocated")

\* The threads that call into the driver: the host's I/O threads, which call
\* DoIOOperation, and the thread that starts and stops IO.
IOThreads == {"io1", "io2"}
Threads == IOThreads \cup {"control"}

\* A thread that is not inside the driver and has made no call yet.
NoThreadCall == [pc |-> "idle", operationID |-> "None", status |-> "None"]

\* Both plug-ins as their factories leave them, before any call.
\* The capture threads the client can spawn in one run.
MaxCaptureThreads == 3
\* The audio packets with sound in them that the endpoint delivers in one run.
MaxCallbacks == 2

CaptureThreadIds == 1..MaxCaptureThreads
\* A default-constructed std::thread: joinable() is false.
NotAThread == 0
JsIdle == [pc |-> "idle", op |-> "none", result |-> "none",
           spawned |-> NotAThread, stopped |-> FALSE]

\* AudioCaptureAddon::AudioCaptureAddon, given a callback: nothing is being
\* captured, captureThread_ owns no thread, tsfn_ has nothing queued.
AudioCaptureAddon ==
    /\ isCapturing_ = FALSE
    /\ captureThread_ = NotAThread
    /\ captureThreads = [id \in CaptureThreadIds |-> "unborn"]
    /\ js = JsIdle
    /\ tsfnCalls = 0

CreatedWith(calloc_result) ==
    /\ SurgeAudioDriverPlugInFactoryWith(calloc_result)
    /\ AudioDriverPlugInFactory
    /\ AudioCaptureAddon
    /\ refHistory = [surge |-> NoRefs, variant |-> NoRefs]
    /\ hostClock = 0
    /\ lastZeroTimeStamp = NoTimeStamp
    /\ call = NoCall
    /\ ioClients = 0
    /\ framesWritten = 0
    /\ framesRead = 0
    /\ shadow = EmptyShadow
    /\ thread = [t \in Threads |-> NoThreadCall]
    /\ ringBufferMutex = "free"

Created == CreatedWith("allocated")

\* The host has loaded the loopback driver.
Init == Created /\ loaded = "surge"

(***************************************************************************)
(* I/O engine                                                              *)
(***************************************************************************)

\* A StartIO that resets the session on every call, running or not.
StartIO_EveryCall ==
    /\ ioClients < MaxClients
    /\ ioClients' = ioClients + 1
    /\ anchorHostTime' = hostClock
    /\ anchorSampleTime' = 0
    /\ deviceIsRunning' = TRUE
    /\ ringBuffer' = ZeroRing
    /\ ringBufferWritePosition' = 0
    /\ ringBufferReadPosition' = 0
    /\ framesWritten' = 0
    /\ framesRead' = 0
    /\ shadow' = EmptyShadow
    /\ lastZeroTimeStamp' = [lastZeroTimeStamp EXCEPT !.sameSession = FALSE]
    /\ call' = [op |-> "StartIO", status |-> "NoError", wasRunning |-> deviceIsRunning]
    /\ UNCHANGED <<sampleRate, ticksPerFrame, inputStreamIsActive, outputStreamIsActive,
                   inputVolume, outputVolume, hostClock, plugInVars, threadVars>>

\* SurgeAudioDriver_StartIO: only a device that is not running is reset.
StartIO ==
    /\ ioClients < MaxClients
    /\ ioClients' = ioClients + 1
    /\ IF ~deviceIsRunning
          THEN /\ anchorHostTime' = hostClock
               /\ anchorSampleTime' = 0
               /\ deviceIsRunning' = TRUE
               /\ ringBuffer' = ZeroRing
               /\ ringBufferWritePosition' = 0
               /\ ringBufferReadPosition' = 0
               /\ framesWritten' = 0
               /\ framesRead' = 0
               /\ shadow' = EmptyShadow
               /\ lastZeroTimeStamp' = [lastZeroTimeStamp EXCEPT !.sameSession = FALSE]
          ELSE UNCHANGED <<anchorHostTime, anchorSampleTime, deviceIsRunning, ringVars,
                           framesWritten, framesRead, shadow, lastZeroTimeStamp>>
    /\ call' = [op |-> "StartIO", status |-> "NoError", wasRunning |-> deviceIsRunning]
    /\ UNCHANGED <<sampleRate, ticksPerFrame, inputStreamIsActive, outputStreamIsActive,
                   inputVolume, outputVolume, hostClock, plugInVars, threadVars>>

\* SurgeAudioDriver_StopIO: the host stops IO only for a client it started.
StopIO ==
    /\ ioClients > 0
    /\ ioClients' = ioClients - 1
    /\ deviceIsRunning' = FALSE
    /\ lastZeroTimeStamp' = [lastZeroTimeStamp EXCEPT !.sameSession = FALSE]
    /\ call' = [op |-> "StopIO", status |-> "NoError"]
    /\ UNCHANGED <<sampleRate, ticksPerFrame, inputStreamIsActive, outputStreamIsActive,
                   inputVolume, outputVolume, ringVars, framesWritten, framesRead, shadow,
                   anchorHostTime, anchorSampleTime, hostClock, plugInVars, threadVars>>

\* A write loop that stores the host's samples without the output volume.
RECURSIVE WriteLoop_NoScale(_, _, _, _, _)
WriteLoop_NoScale(ring, pos, buffer, k, volume) ==
    IF k = 0 THEN [ring |-> ring, pos |-> pos]
    ELSE LET prev == WriteLoop_NoScale(ring, pos, buffer, k - 1, volume)
         IN  [ring |-> [prev.ring EXCEPT ![prev.pos] = buffer[k]],
              pos |-> (prev.pos + 1) % kRingBufferSize]

\* A write loop that keeps a sample already in the ring instead of
\* overwriting it.
RECURSIVE WriteLoop_KeepOld(_, _, _, _, _)
WriteLoop_KeepOld(ring, pos, buffer, k, volume) ==
    IF k = 0 THEN [ring |-> ring, pos |-> pos]
    ELSE LET prev == WriteLoop_KeepOld(ring, pos, buffer, k - 1, volume)
         IN  [ring |-> IF prev.ring[prev.pos] = 0
                          THEN [prev.ring EXCEPT ![prev.pos] = FMul(buffer[k], volume)]
                          ELSE prev.ring,
              pos |-> (prev.pos + 1) % kRingBufferSize]

\* A write loop that wraps the write position one slot too late.
RECURSIVE WriteLoop_WrapLate(_, _, _, _, _)
WriteLoop_WrapLate(ring, pos, buffer, k, volume) ==
    IF k = 0 THEN [ring |-> ring, pos |-> pos]
    ELSE LET prev == WriteLoop_WrapLate(ring, pos, buffer, k - 1, volume)
         IN  [ring |-> [prev.ring EXCEPT
                          ![prev.pos % kRingBufferSize] = FMul(buffer[k], volume)],
              pos |-> IF prev.pos + 1 > kRingBufferSize THEN 0 ELSE prev.pos + 1]

\* The write loop of DoIOOperation: the ring and the write position after
\* the first k samples of buffer have been stored.
RECURSIVE WriteLoop(_, _, _, _, _)
WriteLoop(ring, pos, buffer, k, volume) ==
    IF k = 0 THEN [ring |-> ring, pos |-> pos]
    ELSE LET prev == WriteLoop(ring, pos, buffer, k - 1, volume)
         IN  [ring |-> [prev.ring EXCEPT ![prev.pos] = FMul(buffer[k], volume)],
              pos |-> (prev.pos + 1) % kRingBufferSize]

\* A read loop that fetches every sample of the block from the slot the
\* block starts at.
ReadLoop_Stale(ring, pos, numSamples, volume) ==
    [buffer |-> [i \in 1..numSamples |-> FMul(ring[pos], volume)],
     pos |-> (pos + numSamples) % kRingBufferSize]

\* A read loop that advances the read position by frames, not by samples.
ReadLoop_ByFrames(ring, pos, numSamples, volume) ==
    [buffer |-> [i \in 1..numSamples |->
                    FMul(ring[(pos + i - 1) % kRingBufferSize], volume)],
     pos |-> (pos + numSamples \div kChannelsPerFrame) % kRingBufferSize]

\* The read loop of DoIOOperation: the host buffer and the read position
\* after numSamples samples have been fetched.
ReadLoop(ring, pos, numSamples, volume) ==
    [buffer |-> [i \in 1..numSamples |->
                    FMul(ring[(pos + i - 1) % kRingBufferSize], volume)],
     pos |-> (pos + numSamples) % kRingBufferSize]

\* What the host put at each slot: sample number, sample and the output
\* volume in effect.
ShadowWrite(sh, first, buffer, volume) ==
    [j \in Slots |->
        IF \E i \in 1..Len(buffer) : (first + i - 1) % kRingBufferSize = j
           THEN LET i == CHOOSE m \in 1..Len(buffer) :
                            /\ (first + m - 1) % kRingBufferSize = j
                            /\ \A m2 \in 1..Len(buffer) :
                                  (first + m2 - 1) % kRingBufferSize = j => m2 <= m
                IN  [n |-> first + i - 1, s |-> buffer[i], ov |-> volume]
           ELSE sh[j]]

\* The host's mix buffers of numSamples samples: the host chooses the first
\* sample; the two channels of a frame differ and swap from one frame to the
\* next, so that every misplaced sample of a block shows.
HostBuffers(numSamples) ==
    { [i \in 1..numSamples |->
          IF ((i - 1) \div kChannelsPerFrame + (i - 1)) % 2 = 0
             THEN b ELSE F_ONE + F_HALF - b] : b \in SampleInputs }

\* SurgeAudioDriver_DoIOOperation, kAudioServerPlugInIOOperationWriteMix, with
\* ioBufferFrameSize drawn from frameSizes.
WriteMixOf(frameSizes) ==
    \E ioBufferFrameSize \in frameSizes :
      LET numSamples == ioBufferFrameSize * kChannelsPerFrame IN
      /\ framesWritten + ioBufferFrameSize <= MaxSessionFrames
      /\ \E buffer \in HostBuffers(numSamples) :
           LET res == WriteLoop(ringBuffer, ringBufferWritePosition, buffer,
                                numSamples, outputVolume)
           IN  /\ ringBuffer' = res.ring
               /\ ringBufferWritePosition' = res.pos
               /\ shadow' = ShadowWrite(shadow, framesWritten * kChannelsPerFrame,
                                        buffer, outputVolume)
               /\ framesWritten' = framesWritten + ioBufferFrameSize
               /\ call' = [op |-> "DoIOOperation", operationID |-> "WriteMix",
                           ioBufferFrameSize |-> ioBufferFrameSize,
                           ioMainBuffer |-> buffer, status |-> "NoError"]
      /\ UNCHANGED <<driverVars, ringBufferReadPosition, ioClients, framesRead,
                     timeVars, plugInVars, threadVars>>

WriteMix == WriteMixOf(FrameSizes)

\* SurgeAudioDriver_DoIOOperation, kAudioServerPlugInIOOperationReadInput, with
\* ioBufferFrameSize drawn from frameSizes.
ReadInputOf(frameSizes) ==
    \E ioBufferFrameSize \in frameSizes :
      LET numSamples == ioBufferFrameSize * kChannelsPerFrame
          res == ReadLoop(ringBuffer, ringBufferReadPosition, numSamples, inputVolume)
      IN
      /\ framesRead + ioBufferFrameSize <= MaxSessionFrames
      /\ ringBufferReadPosition' = res.pos
      /\ framesRead' = framesRead + ioBufferFrameSize
      /\ call' = [op |-> "DoIOOperation", operationID |-> "ReadInput",
                  ioBufferFrameSize |-> ioBufferFrameSize,
                  ioMainBuffer |-> res.buffer, status |-> "NoError",
                  first |-> framesRead * kChannelsPerFrame,
                  inputVolume |-> inputVolume]
      /\ UNCHANGED <<driverVars, ringBuffer, ringBufferWritePosition, ioClients,
                     framesWritten, shadow, timeVars, plugInVars, threadVars>>

ReadInput == ReadInputOf(FrameSizes)


(***************************************************************************)
(* Property dispatcher                                                     *)
(*                                                                         *)
(* A selector is the name the source gives it.  kAudioStreamPropertyLatency *)
(* and kAudioDevicePropertyLatency are one selector in CoreAudio and one   *)
(* name here.                                                              *)
(***************************************************************************)
sizeof_AudioClassID == 4
sizeof_AudioObjectID == 4
sizeof_UInt32 == 4
sizeof_Float32 == 4
sizeof_Float64 == 8
sizeof_CFStringRef == 8
sizeof_CFURLRef == 8
sizeof_AudioValueRange == 16
sizeof_AudioStreamBasicDescription == 40
sizeof_AudioStreamRangedDescription == 56

kAudioObjectUnknown == 0
kDevice_UID == "SurgeAudioDevice_UID"

StreamObjects == {kObjectID_Stream_Input, kObjectID_Stream_Output}
VolumeObjects == {kObjectID_Volume_Input_Master, kObjectID_Volume_Output_Master}

\* The sample rates the device advertises.
AdvertisedRates == {44100, 48000, 96000, 192000}

\* kAudioStreamPropertyVirtualFormat / PhysicalFormat at a sample rate.
StreamFormat(rate) ==
    [mSampleRate |-> rate, mFormatID |-> "lpcm",
     mFormatFlags |-> {"IsFloat", "NativeEndian", "IsPacked"},
     mBytesPerPacket |-> kBytesPerFrame, mFramesPerPacket |-> 1,
     mBytesPerFrame |-> kBytesPerFrame, mChannelsPerFrame |-> kChannelsPerFrame,
     mBitsPerChannel |-> kBitsPerChannel]

\* powf(10.0f, dB / 20.0f) on the fixed-point image (resolution 1/F_ONE,
\* rounded down), for whole decibels.
DecibelToScalar(dB) ==
    CASE dB = 6 -> 2 * F_ONE - 1
      [] dB = 0 -> F_ONE
      [] dB = -6 -> F_ONE \div 2
      [] dB = -12 -> F_ONE \div 4
      [] dB = -18 -> F_ONE \div 8
      [] dB = -24 -> F_ONE \div 16
      [] dB = -96 -> 0

\* (volume > 0.0f) ? 20.0f * log10f(volume) : -96.0f, to the nearest whole
\* decibel.
ScalarToDecibel(volume) ==
    IF volume > 0
       THEN CASE volume >= 2 * F_ONE - 1 -> 6
              [] volume = F_ONE -> 0
              [] volume = F_ONE \div 2 -> -6
              [] volume = F_ONE \div 4 -> -12
              [] volume = F_ONE \div 8 -> -18
              [] volume = F_ONE \div 16 -> -24
       ELSE -96

\* SurgeAudioDriver_HasProperty: the selectors each object answers true for.
HasSelectors(objectID) ==
    CASE objectID = kObjectID_PlugIn ->
           {"kAudioObjectPropertyBaseClass", "kAudioObjectPropertyClass",
            "kAudioObjectPropertyOwner", "kAudioObjectPropertyManufacturer",
            "kAudioObjectPropertyOwnedObjects", "kAudioPlugInPropertyDeviceList",
            "kAudioPlugInPropertyTranslateUIDToDevice",
            "kAudioPlugInPropertyResourceBundle"}
      [] objectID = kObjectID_Device ->
           {"kAudioObjectPropertyBaseClass", "kAudioObjectPropertyClass",
            "kAudioObjectPropertyOwner", "kAudioObjectPropertyName",
            "kAudioObjectPropertyManufacturer", "kAudioDevicePropertyDeviceUID",
            "kAudioDevicePropertyModelUID", "kAudioDevicePropertyTransportType",
            "kAudioDevicePropertyRelatedDevices", "kAudioDevicePropertyClockDomain",
            "kAudioDevicePropertyDeviceIsAlive", "kAudioDevicePropertyDeviceIsRunning",
            "kAudioDevicePropertyDeviceCanBeDefaultDevice",
            "kAudioDevicePropertyDeviceCanBeDefaultSystemDevice",
            "kAudioDevicePropertyLatency", "kAudioDevicePropertyStreams",
            "kAudioObjectPropertyControlList", "kAudioDevicePropertySafetyOffset",
            "kAudioDevicePropertyNominalSampleRate",
            "kAudioDevicePropertyAvailableNominalSampleRates",
            "kAudioDevicePropertyIsHidden", "kAudioDevicePropertyZeroTimeStampPeriod",
            "kAudioDevicePropertyIcon"}
      [] objectID \in StreamObjects ->
           {"kAudioObjectPropertyBaseClass", "kAudioObjectPropertyClass",
            "kAudioObjectPropertyOwner", "kAudioStreamPropertyIsActive",
            "kAudioStreamPropertyDirection", "kAudioStreamPropertyTerminalType",
            "kAudioStreamPropertyStartingChannel", "kAudioDevicePropertyLatency",
            "kAudioStreamPropertyVirtualFormat", "kAudioStreamPropertyPhysicalFormat",
            "kAudioStreamPropertyAvailableVirtualFormats",
            "kAudioStreamPropertyAvailablePhysicalFormats"}
      [] objectID \in VolumeObjects ->
           {"kAudioObjectPropertyBaseClass", "kAudioObjectPropertyClass",
            "kAudioObjectPropertyOwner", "kAudioObjectPropertyOwnedObjects",
            "kAudioControlPropertyScope", "kAudioControlPropertyElement",
            "kAudioLevelControlPropertyScalarValue",
            "kAudioLevelControlPropertyDecibelValue",
            "kAudioLevelControlPropertyDecibelRange",
            "kAudioLevelControlPropertyConvertScalarToDecibels",
            "kAudioLevelControlPropertyConvertDecibelsToScalar"}
      [] OTHER -> {}

HasProperty(objectID, selector) == selector \in HasSelectors(objectID)

\* SurgeAudioDriver_IsPropertySettable: always kAudioHardwareNoError.
SettableSelectors(objectID) ==
    CASE objectID = kObjectID_Device -> {"kAudioDevicePropertyNominalSampleRate"}
      [] objectID \in StreamObjects ->
           {"kAudioStreamPropertyIsActive", "kAudioStreamPropertyVirtualFormat",
            "kAudioStreamPropertyPhysicalFormat"}
      [] objectID \in VolumeObjects ->
           {"kAudioLevelControlPropertyScalarValue",
            "kAudioLevelControlPropertyDecibelValue"}
      [] OTHER -> {}

IsPropertySettable(objectID, selector) ==
    [status |-> "NoError", outIsSettable |-> selector \in SettableSelectors(objectID)]

Sized(size) == [status |-> "NoError", outDataSize |-> size]
Failed(status) == [status |-> status, outDataSize |-> 0]

\* SurgeAudioDriver_GetPropertyDataSize.  A failing call leaves *outDataSize
\* as the caller set it; the model shows it as 0.
GetPropertyDataSize(objectID, selector, scope) ==
    CASE objectID = kObjectID_PlugIn ->
           CASE selector \in {"kAudioObjectPropertyBaseClass", "kAudioObjectPropertyClass",
                              "kAudioObjectPropertyOwner"} -> Sized(sizeof_AudioClassID)
             [] selector = "kAudioObjectPropertyManufacturer" -> Sized(sizeof_CFStringRef)
             [] selector \in {"kAudioObjectPropertyOwnedObjects",
                              "kAudioPlugInPropertyDeviceList",
                              "kAudioPlugInPropertyTranslateUIDToDevice"} ->
                  Sized(sizeof_AudioObjectID)
             [] selector = "kAudioPlugInPropertyResourceBundle" -> Sized(sizeof_CFStringRef)
             [] OTHER -> Failed("UnknownProperty")
      [] objectID = kObjectID_Device ->
           CASE selector \in {"kAudioObjectPropertyBaseClass", "kAudioObjectPropertyClass"} ->
                  Sized(sizeof_AudioClassID)
             [] selector = "kAudioObjectPropertyOwner" -> Sized(sizeof_AudioObjectID)
             [] selector \in {"kAudioObjectPropertyName", "kAudioObjectPropertyManufacturer",
                              "kAudioDevicePropertyDeviceUID",
                              "kAudioDevicePropertyModelUID"} -> Sized(sizeof_CFStringRef)
             [] selector \in {"kAudioDevicePropertyTransportType",
                              "kAudioDevicePropertyClockDomain"} -> Sized(sizeof_UInt32)
             [] selector = "kAudioDevicePropertyRelatedDevices" -> Sized(sizeof_AudioObjectID)
             [] selector \in {"kAudioDevicePropertyDeviceIsAlive",
                              "kAudioDevicePropertyDeviceIsRunning",
                              "kAudioDevicePropertyDeviceCanBeDefaultDevice",
                              "kAudioDevicePropertyDeviceCanBeDefaultSystemDevice",
                              "kAudioDevicePropertyIsHidden",
                              "kAudioDevicePropertyLatency",
                              "kAudioDevicePropertySafetyOffset",
                              "kAudioDevicePropertyZeroTimeStampPeriod"} -> Sized(sizeof_UInt32)
             [] selector = "kAudioDevicePropertyStreams" ->
                  IF scope \in {"Input", "Output"}
                     THEN Sized(sizeof_AudioObjectID)
                     ELSE Sized(2 * sizeof_AudioObjectID)
             [] selector = "kAudioObjectPropertyControlList" -> Sized(4 * sizeof_AudioObjectID)
             [] selector = "kAudioDevicePropertyNominalSampleRate" -> Sized(sizeof_Float64)
             [] selector = "kAudioDevicePropertyAvailableNominalSampleRates" ->
                  Sized(4 * sizeof_AudioValueRange)
             [] selector = "kAudioDevicePropertyIcon" -> Sized(sizeof_CFURLRef)
             [] OTHER -> Failed("UnknownProperty")
      [] objectID \in StreamObjects ->
           CASE selector \in {"kAudioObjectPropertyBaseClass", "kAudioObjectPropertyClass"} ->
                  Sized(sizeof_AudioClassID)
             [] selector = "kAudioObjectPropertyOwner" -> Sized(sizeof_AudioObjectID)
             [] selector \in {"kAudioStreamPropertyIsActive", "kAudioStreamPropertyDirection",
                              "kAudioStreamPropertyTerminalType",
                              "kAudioStreamPropertyStartingChannel",
                              "kAudioDevicePropertyLatency"} -> Sized(sizeof_UInt32)
             [] selector \in {"kAudioStreamPropertyVirtualFormat",
                              "kAudioStreamPropertyPhysicalFormat"} ->
                  Sized(sizeof_AudioStreamBasicDescription)
             [] selector \in {"kAudioStreamPropertyAvailableVirtualFormats",
                              "kAudioStreamPropertyAvailablePhysicalFormats"} ->
                  Sized(4 * sizeof_AudioStreamRangedDescription)
             [] OTHER -> Failed("UnknownProperty")
      [] objectID \in VolumeObjects ->
           CASE selector \in {"kAudioObjectPropertyBaseClass", "kAudioObjectPropertyClass"} ->
                  Sized(sizeof_AudioClassID)
             [] selector = "kAudioObjectPropertyOwner" -> Sized(sizeof_AudioObjectID)
             [] selector = "kAudioObjectPropertyOwnedObjects" -> Sized(0)
             [] selector \in {"kAudioControlPropertyScope",
                              "kAudioControlPropertyElement"} -> Sized(sizeof_UInt32)
             [] selector \in {"kAudioLevelControlPropertyScalarValue",
                              "kAudioLevelControlPropertyDecibelValue",
                              "kAudioLevelControlPropertyConvertScalarToDecibels",
                              "kAudioLevelControlPropertyConvertDecibelsToScalar"} ->
                  Sized(sizeof_Float32)
             [] selector = "kAudioLevelControlPropertyDecibelRange" ->
                  Sized(sizeof_AudioValueRange)
             [] OTHER -> Failed("UnknownProperty")
      [] OTHER -> Failed("BadObject")

Wrote(size, data) ==
    [status |-> "NoError", outDataSize |-> size, bytesWritten |-> size, outData |-> data]
NotWritten(status) ==
    [status |-> status, outDataSize |-> 0, bytesWritten |-> 0, outData |-> <<>>]

AvailableNominalSampleRates ==
    [i \in 1..4 |->
        LET rate == CASE i = 1 -> 44100 [] i = 2 -> 48000 [] i = 3 -> 96000 [] i = 4 -> 192000
        IN  [mMinimum |-> rate, mMaximum |-> rate]]

AvailableFormats ==
    [i \in 1..4 |->
        [mFormat |-> StreamFormat(AvailableNominalSampleRates[i].mMinimum),
         mSampleRateRange |-> AvailableNominalSampleRates[i]]]

\* SurgeAudioDriver_GetPropertyData.  No case looks at inDataSize: a case
\* that knows the property stores the whole value through outData and sets
\* *outDataSize to its size.  A failing call leaves both as the caller set
\* them (shown as 0 and <<>>).
GetPropertyData(objectID, selector, scope, qualifierData) ==
    CASE objectID = kObjectID_PlugIn ->
           CASE selector = "kAudioObjectPropertyBaseClass" ->
                  Wrote(sizeof_AudioClassID, "kAudioObjectClassID")
             [] selector = "kAudioObjectPropertyClass" ->
                  Wrote(sizeof_AudioClassID, "kAudioPlugInClassID")
             [] selector = "kAudioObjectPropertyOwner" ->
                  Wrote(sizeof_AudioObjectID, kAudioObjectUnknown)
             [] selector = "kAudioObjectPropertyManufacturer" ->
                  Wrote(sizeof_CFStringRef, "Surge")
             [] selector \in {"kAudioObjectPropertyOwnedObjects",
                              "kAudioPlugInPropertyDeviceList"} ->
                  Wrote(sizeof_AudioObjectID, <<kObjectID_Device>>)
             [] selector = "kAudioPlugInPropertyTranslateUIDToDevice" ->
                  Wrote(sizeof_AudioObjectID,
                        IF qualifierData # "NULL" /\ qualifierData = kDevice_UID
                           THEN kObjectID_Device ELSE kAudioObjectUnknown)
             [] selector = "kAudioPlugInPropertyResourceBundle" ->
                  Wrote(sizeof_CFStringRef, "")
             [] OTHER -> NotWritten("UnknownProperty")
      [] objectID = kObjectID_Device ->
           CASE selector = "kAudioObjectPropertyBaseClass" ->
                  Wrote(sizeof_AudioClassID, "kAudioObjectClassID")
             [] selector = "kAudioObjectPropertyClass" ->
                  Wrote(sizeof_AudioClassID, "kAudioDeviceClassID")
             [] selector = "kAudioObjectPropertyOwner" ->
                  Wrote(sizeof_AudioObjectID, kObjectID_PlugIn)
             [] selector = "kAudioObjectPropertyName" ->
                  Wrote(sizeof_CFStringRef, "Surge Audio")
             [] selector = "kAudioObjectPropertyManufacturer" ->
                  Wrote(sizeof_CFStringRef, "Surge")
             [] selector = "kAudioDevicePropertyDeviceUID" ->
                  Wrote(sizeof_CFStringRef, kDevice_UID)
             [] selector = "kAudioDevicePropertyModelUID" ->
                  Wrote(sizeof_CFStringRef, "SurgeAudioDevice_ModelUID")
             [] selector = "kAudioDevicePropertyTransportType" ->
                  Wrote(sizeof_UInt32, "kAudioDeviceTransportTypeVirtual")
             [] selector = "kAudioDevicePropertyRelatedDevices" ->
                  Wrote(sizeof_AudioObjectID, <<kObjectID_Device>>)
             [] selector = "kAudioDevicePropertyClockDomain" -> Wrote(sizeof_UInt32, 0)
             [] selector = "kAudioDevicePropertyDeviceIsAlive" -> Wrote(sizeof_UInt32, 1)
             [] selector = "kAudioDevicePropertyDeviceIsRunning" ->
                  Wrote(sizeof_UInt32, IF deviceIsRunning THEN 1 ELSE 0)
             [] selector = "kAudioDevicePropertyDeviceCanBeDefaultDevice" ->
                  Wrote(sizeof_UInt32, 1)
             [] selector = "kAudioDevicePropertyDeviceCanBeDefaultSystemDevice" ->
                  Wrote(sizeof_UInt32, 1)
             [] selector = "kAudioDevicePropertyIsHidden" -> Wrote(sizeof_UInt32, 0)
             [] selector = "kAudioDevicePropertyLatency" -> Wrote(sizeof_UInt32, 0)
             [] selector = "kAudioDevicePropertySafetyOffset" -> Wrote(sizeof_UInt32, 0)
             [] selector = "kAudioDevicePropertyZeroTimeStampPeriod" ->
                  Wrote(sizeof_UInt32, kLatency_Frame_Size)
             [] selector = "kAudioDevicePropertyStreams" ->
                  CASE scope = "Input" ->
                         Wrote(sizeof_AudioObjectID, <<kObjectID_Stream_Input>>)
                    [] scope = "Output" ->
                         Wrote(sizeof_AudioObjectID, <<kObjectID_Stream_Output>>)
                    [] OTHER ->
                         Wrote(2 * sizeof_AudioObjectID,
                               <<kObjectID_Stream_Input, kObjectID_Stream_Output>>)
             [] selector = "kAudioObjectPropertyControlList" ->
                  Wrote(4 * sizeof_AudioObjectID,
                        <<kObjectID_Volume_Input_Master, kObjectID_Volume_Output_Master,
                          kObjectID_Mute_Input_Master, kObjectID_Mute_Output_Master>>)
             [] selector = "kAudioDevicePropertyNominalSampleRate" ->
                  Wrote(sizeof_Float64, sampleRate)
             [] selector = "kAudioDevicePropertyAvailableNominalSampleRates" ->
                  Wrote(4 * sizeof_AudioValueRange, AvailableNominalSampleRates)
             [] OTHER -> NotWritten("UnknownProperty")
      [] objectID \in StreamObjects ->
           CASE selector = "kAudioObjectPropertyBaseClass" ->
                  Wrote(sizeof_AudioClassID, "kAudioObjectClassID")
             [] selector = "kAudioObjectPropertyClass" ->
                  Wrote(sizeof_AudioClassID, "kAudioStreamClassID")
             [] selector = "kAudioObjectPropertyOwner" ->
                  Wrote(sizeof_AudioObjectID, kObjectID_Device)
             [] selector = "kAudioStreamPropertyIsActive" ->
                  Wrote(sizeof_UInt32,
                        IF objectID = kObjectID_Stream_Input
                           THEN (IF inputStreamIsActive THEN 1 ELSE 0)
                           ELSE (IF outputStreamIsActive THEN 1 ELSE 0))
             [] selector = "kAudioStreamPropertyDirection" ->
                  Wrote(sizeof_UInt32, IF objectID = kObjectID_Stream_Input THEN 1 ELSE 0)
             [] selector = "kAudioStreamPropertyTerminalType" ->
                  Wrote(sizeof_UInt32,
                        IF objectID = kObjectID_Stream_Input
                           THEN "kAudioStreamTerminalTypeMicrophone"
                           ELSE "kAudioStreamTerminalTypeSpeaker")
             [] selector = "kAudioStreamPropertyStartingChannel" -> Wrote(sizeof_UInt32, 1)
             [] selector = "kAudioDevicePropertyLatency" -> Wrote(sizeof_UInt32, 0)
             [] selector \in {"kAudioStreamPropertyVirtualFormat",
                              "kAudioStreamPropertyPhysicalFormat"} ->
                  Wrote(sizeof_AudioStreamBasicDescription, StreamFormat(sampleRate))
             [] selector \in {"kAudioStreamPropertyAvailableVirtualFormats",
                              "kAudioStreamPropertyAvailablePhysicalFormats"} ->
                  Wrote(4 * sizeof_AudioStreamRangedDescription, AvailableFormats)
             [] OTHER -> NotWritten("UnknownProperty")
      [] objectID \in VolumeObjects ->
           LET volume == IF objectID = kObjectID_Volume_Input_Master
                            THEN inputVolume ELSE outputVolume
           IN
           CASE selector = "kAudioObjectPropertyBaseClass" ->
                  Wrote(sizeof_AudioClassID, "kAudioControlClassID")
             [] selector = "kAudioObjectPropertyClass" ->
                  Wrote(sizeof_AudioClassID, "kAudioVolumeControlClassID")
             [] selector = "kAudioObjectPropertyOwner" ->
                  Wrote(sizeof_AudioObjectID, kObjectID_Device)
             [] selector = "kAudioObjectPropertyOwnedObjects" ->
                  [status |-> "NoError", outDataSize |-> 0, bytesWritten |-> 0,
                   outData |-> <<>>]
             [] selector = "kAudioControlPropertyScope" ->
                  Wrote(sizeof_UInt32,
                        IF objectID = kObjectID_Volume_Input_Master
                           THEN "Input" ELSE "Output")
             [] selector = "kAudioControlPropertyElement" ->
                  Wrote(sizeof_UInt32, "kAudioObjectPropertyElementMain")
             [] selector = "kAudioLevelControlPropertyScalarValue" ->
                  Wrote(sizeof_Float32, volume)
             [] selector = "kAudioLevelControlPropertyDecibelValue" ->
                  Wrote(sizeof_Float32, ScalarToDecibel(volume))
             [] selector = "kAudioLevelControlPropertyDecibelRange" ->
                  Wrote(sizeof_AudioValueRange, [mMinimum |-> -96, mMaximum |-> 0])
             [] OTHER -> NotWritten("UnknownProperty")
      [] OTHER -> NotWritten("BadObject")

\* The result SurgeAudioDriver_SetPropertyData returns.
SetPropertyDataStatus(objectID, selector) ==
    CASE objectID = kObjectID_Device ->
           IF selector = "kAudioDevicePropertyNominalSampleRate"
              THEN "NoError" ELSE "UnknownProperty"
      [] objectID \in StreamObjects ->
           IF selector = "kAudioStreamPropertyIsActive"
              THEN "NoError" ELSE "UnknownProperty"
      [] objectID \in VolumeObjects ->
           IF selector \in {"kAudioLevelControlPropertyScalarValue",
                            "kAudioLevelControlPropertyDecibelValue"}
              THEN "NoError" ELSE "UnknownProperty"
      [] OTHER -> "BadObject"

\* The volume a level control stores for inData.
StoredVolume(selector, inData, volume) ==
    CASE selector = "kAudioLevelControlPropertyScalarValue" -> inData
      [] selector = "kAudioLevelControlPropertyDecibelValue" -> DecibelToScalar(inData)
      [] OTHER -> volume

\* SurgeAudioDriver_SetPropertyData: the value is stored as given.
SetPropertyData(objectID, selector, inData) ==
    LET setsRate == objectID = kObjectID_Device
                    /\ selector = "kAudioDevicePropertyNominalSampleRate"
    IN
    /\ sampleRate' = IF setsRate THEN inData ELSE sampleRate
    /\ ticksPerFrame' = IF setsRate THEN TicksPerFrame(inData) ELSE ticksPerFrame
    /\ inputStreamIsActive' =
          IF objectID = kObjectID_Stream_Input /\ selector = "kAudioStreamPropertyIsActive"
             THEN inData # 0 ELSE inputStreamIsActive
    /\ outputStreamIsActive' =
          IF objectID = kObjectID_Stream_Output /\ selector = "kAudioStreamPropertyIsActive"
             THEN inData # 0 ELSE outputStreamIsActive
    /\ inputVolume' =
          IF objectID = kObjectID_Volume_Input_Master
             THEN StoredVolume(selector, inData, inputVolume) ELSE inputVolume
    /\ outputVolume' =
          IF objectID = kObjectID_Volume_Output_Master
             THEN StoredVolume(selector, inData, outputVolume) ELSE outputVolume
    /\ call' = [op |-> "SetPropertyData", objectID |-> objectID, selector |-> selector,
                inData |-> inData, status |-> SetPropertyDataStatus(objectID, selector)]
    /\ UNCHANGED <<deviceIsRunning, ringVars, histVars, timeVars, plugInVars, threadVars>>

\* SurgeAudioDriver_SetPropertyData, kAudioLevelControlPropertyScalarValue.
SetVolumeScalar ==
    \E objectID \in VolumeObjects, inData \in VolumeInputs :
      SetPropertyData(objectID, "kAudioLevelControlPropertyScalarValue", inData)

Next == StartIO \/ StopIO \/ WriteMix \/ ReadInput \/ SetVolumeScalar

Spec == Init /\ [][Next]_vars

(***************************************************************************)
(* The property protocol as the host drives it: one call at a time, each   *)
(* call recorded in call until it returns.                                 *)
(***************************************************************************)
\* The ids of the enum, and one below and one above it.
ObjectIDs == kAudioObjectUnknown..(kObjectID_DataSource_Output + 1)

\* Every selector some object answers, and two that no switch names.
Selectors ==
    UNION {HasSelectors(objectID) : objectID \in ObjectIDs}
      \cup {"kAudioBooleanControlPropertyValue", "kAudioObjectPropertyIdentify"}

\* mScope is read for kAudioDevicePropertyStreams only.
Scopes(selector) ==
    IF selector = "kAudioDevicePropertyStreams"
       THEN {"Global", "Input", "Output"} ELSE {"Global"}

\* qualifierData is read for kAudioPlugInPropertyTranslateUIDToDevice only.
Qualifiers(selector) ==
    IF selector = "kAudioPlugInPropertyTranslateUIDToDevice"
       THEN {"NULL", kDevice_UID, "OtherDevice_UID"} ELSE {"NULL"}

\* An empty buffer, a buffer of one UInt32, and one that holds the largest
\* property.
InDataSizes == {0, sizeof_UInt32, 4 * sizeof_AudioStreamRangedDescription}

RateInputs == AdvertisedRates \cup {22050}
ActiveInputs == {0, 1}
DecibelInputs == {-6, 0}

\* Well-formed data for a selector: the type the property has.
SetInputs(selector) ==
    CASE selector = "kAudioDevicePropertyNominalSampleRate" -> RateInputs
      [] selector = "kAudioStreamPropertyIsActive" -> ActiveInputs
      [] selector \in {"kAudioStreamPropertyVirtualFormat",
                       "kAudioStreamPropertyPhysicalFormat"} ->
           {AvailableFormats[i].mFormat : i \in 1..4}
      [] selector = "kAudioLevelControlPropertyScalarValue" -> VolumeInputs
      [] selector = "kAudioLevelControlPropertyDecibelValue" -> DecibelInputs
      [] OTHER -> {0}

HasPropertyCall ==
    \E objectID \in ObjectIDs, selector \in Selectors :
      /\ call' = [op |-> "HasProperty", objectID |-> objectID, selector |-> selector,
                  result |-> HasProperty(objectID, selector)]
      /\ UNCHANGED <<driverVars, ringVars, histVars, timeVars, plugInVars, threadVars>>

IsPropertySettableCall ==
    \E objectID \in ObjectIDs, selector \in Selectors :
      LET res == IsPropertySettable(objectID, selector) IN
      /\ call' = [op |-> "IsPropertySettable", objectID |-> objectID,
                  selector |-> selector, status |-> res.status,
                  outIsSettable |-> res.outIsSettable]
      /\ UNCHANGED <<driverVars, ringVars, histVars, timeVars, plugInVars, threadVars>>

GetPropertyDataSizeCall ==
    \E objectID \in ObjectIDs, selector \in Selectors :
      \E scope \in Scopes(selector) :
        LET res == GetPropertyDataSize(objectID, selector, scope) IN
        /\ call' = [op |-> "GetPropertyDataSize", objectID |-> objectID,
                    selector |-> selector, scope |-> scope, status |-> res.status,
                    outDataSize |-> res.outDataSize]
        /\ UNCHANGED <<driverVars, ringVars, histVars, timeVars, plugInVars, threadVars>>

GetPropertyDataCall ==
    \E objectID \in ObjectIDs, selector \in Selectors, inDataSize \in InDataSizes :
      \E scope \in Scopes(selector), qualifierData \in Qualifiers(selector) :
        LET res == GetPropertyData(objectID, selector, scope, qualifierData) IN
        /\ call' = [op |-> "GetPropertyData", objectID |-> objectID,
                    selector |-> selector, scope |-> scope,
                    qualifierData |-> qualifierData, inDataSize |-> inDataSize,
                    status |-> res.status, outDataSize |-> res.outDataSize,
                    bytesWritten |-> res.bytesWritten, outData |-> res.outData]
        /\ UNCHANGED <<driverVars, ringVars, histVars, timeVars, plugInVars, threadVars>>

SetPropertyDataCall ==
    \E objectID \in ObjectIDs, selector \in Selectors :
      \E inData \in SetInputs(selector) :
        SetPropertyData(objectID, selector, inData)

\* The call returns to the host.
Return ==
    /\ call # NoCall
    /\ call' = NoCall
    /\ UNCHANGED <<driverVars, ringVars, histVars, timeVars, plugInVars, threadVars>>

PropNext ==
    \/ (call = NoCall /\ HasPropertyCall)
    \/ (call = NoCall /\ IsPropertySettableCall)
    \/ (call = NoCall /\ GetPropertyDataSizeCall)
    \/ (call = NoCall /\ GetPropertyDataCall)
    \/ (call = NoCall /\ SetPropertyDataCall)
    \/ (call = NoCall /\ StartIO)
    \/ (call = NoCall /\ StopIO)
    \/ Return

PropSpec == Init /\ [][PropNext]_vars

(***************************************************************************)
(* The level controls with any value a host can hand in                    *)
(***************************************************************************)
\* Scalars below, inside and above [0, 1], and gains below, at and above 0 dB.
AnyScalarInputs == {0 - F_HALF, 0, F_HALF, F_ONE, F_ONE + F_HALF, 2 * F_ONE}
AnyDecibelInputs == {-6, 0, 6}

\* SurgeAudioDriver_SetPropertyData, kAudioLevelControlPropertyScalarValue.
SetAnyVolumeScalar ==
    \E objectID \in VolumeObjects, inData \in AnyScalarInputs :
      SetPropertyData(objectID, "kAudioLevelControlPropertyScalarValue", inData)

\* SurgeAudioDriver_SetPropertyData, kAudioLevelControlPropertyDecibelValue.
SetAnyVolumeDecibel ==
    \E objectID \in VolumeObjects, inData \in AnyDecibelInputs :
      SetPropertyData(objectID, "kAudioLevelControlPropertyDecibelValue", inData)

VolumeNext == SetAnyVolumeScalar \/ SetAnyVolumeDecibel

VolumeSpec == Init /\ [][VolumeNext]_vars

(***************************************************************************)
(* The device clock: zero timestamps against the host clock                *)
(***************************************************************************)
\* Ticks of mach_absolute_time() between two observations of the host clock:
\* a little more than one zero-timestamp period at the default rate.
ClockStep == 12000000

\* The host clock moves on.
Tick ==
    /\ hostClock < MaxTicks * ClockStep
    /\ hostClock' = hostClock + ClockStep
    /\ UNCHANGED <<driverVars, ringVars, histVars, call, anchorHostTime,
                   anchorSampleTime, lastZeroTimeStamp, plugInVars, threadVars>>

\* A zero timestamp rounded up to the next period boundary.
ZeroTimeStamp_RoundUp(currentHostTime, anchor, ticks) ==
    LET elapsedHostTime == currentHostTime - anchor
        periods == elapsedHostTime \div (ticks * kLatency_Frame_Size) + 1
    IN  [outSampleTime |-> periods * kLatency_Frame_Size,
         outHostTime |-> anchor + periods * kLatency_Frame_Size * ticks,
         outSeed |-> 1]

\* What SurgeAudioDriver_GetZeroTimeStamp returns at host time currentHostTime:
\* the last whole zero-timestamp period since the anchor.
ZeroTimeStamp(currentHostTime, anchor, ticks) ==
    LET elapsedHostTime == currentHostTime - anchor
        periods == elapsedHostTime \div (ticks * kLatency_Frame_Size)
    IN  [outSampleTime |-> periods * kLatency_Frame_Size,
         outHostTime |-> anchor + periods * kLatency_Frame_Size * ticks,
         outSeed |-> 1]

\* SurgeAudioDriver_GetZeroTimeStamp.
GetZeroTimeStamp ==
    LET res == ZeroTimeStamp(hostClock, anchorHostTime, ticksPerFrame) IN
    /\ call' = [op |-> "GetZeroTimeStamp", status |-> "NoError",
                outSampleTime |-> res.outSampleTime, outHostTime |-> res.outHostTime,
                outSeed |-> res.outSeed]
    /\ lastZeroTimeStamp' = [valid |-> TRUE, sameSession |-> deviceIsRunning,
                             outSampleTime |-> res.outSampleTime,
                             outHostTime |-> res.outHostTime, outSeed |-> res.outSeed,
                             anchorHostTime |-> anchorHostTime,
                             ticksPerFrame |-> ticksPerFrame]
    /\ UNCHANGED <<driverVars, ringVars, histVars, anchorHostTime, anchorSampleTime,
                   hostClock, plugInVars, threadVars>>

\* SurgeAudioDriver_SetPropertyData, kAudioDevicePropertyNominalSampleRate.
SetNominalSampleRate ==
    \E inData \in RateInputs :
      SetPropertyData(kObjectID_Device, "kAudioDevicePropertyNominalSampleRate", inData)

TimeNext == Tick \/ StartIO \/ StopIO \/ GetZeroTimeStamp \/ SetNominalSampleRate

TimeSpec == Init /\ [][TimeNext]_vars

\* IO sessions on the device clock: sessions start and stop while the host
\* clock advances and the I/O threads write and read.
SessionNext == Tick \/ StartIO \/ StopIO \/ WriteMix \/ ReadInput

SessionSpec == Init /\ [][SessionNext]_vars

(***************************************************************************)
(* The I/O threads and the ring-buffer mutex.  A call is a sequence of     *)
(* steps of its thread: enter, pthread_mutex_lock, the loop over the       *)
(* samples, pthread_mutex_unlock, return.  The ring and its positions are  *)
(* touched only between lock and unlock, so the loop is one step.          *)
(***************************************************************************)
\* The operations a DoIOOperation call takes the mutex for.
LockedOperations == {"WriteMix", "ReadInput"}

\* The operations the I/O threads ask for; the last one stands for every
\* operation of the default case.
ThreadOperations == LockedOperations \cup {"ProcessOutput"}

\* The buffer the host hands to a write-mix: a full-scale signal.  The loops
\* do not branch on sample values.
FullScale(numSamples) == [i \in 1..numSamples |-> F_ONE]

\* What pthread_mutex_unlock leaves in the mutex.  The mutant keeps it held.
Unlocked_Held(holder) == holder
Unlocked(holder) == "free"

\* SurgeAudioDriver_DoIOOperation is entered: the switch sends write-mix and
\* read-input to pthread_mutex_lock and every other operation to the return.
Thread_DoIOOperation(t) ==
    /\ t \in IOThreads
    /\ thread[t].pc = "idle"
    /\ \E operationID \in ThreadOperations :
         thread' = [thread EXCEPT ![t] =
                      [pc |-> IF operationID \in LockedOperations THEN "lock" ELSE "return",
                       operationID |-> operationID,
                       status |-> "pending"]]
    /\ UNCHANGED <<driverVars, ringVars, timeVars, call, histVars, plugInVars,
                   ringBufferMutex>>

\* SurgeAudioDriver_StartIO is entered: a device that is not running gets its
\* anchor and is marked running before the mutex is asked for.
Thread_StartIO ==
    /\ thread["control"].pc = "idle"
    /\ IF ~deviceIsRunning
          THEN /\ anchorHostTime' = hostClock
               /\ anchorSampleTime' = 0
               /\ deviceIsRunning' = TRUE
          ELSE UNCHANGED <<anchorHostTime, anchorSampleTime, deviceIsRunning>>
    /\ thread' = [thread EXCEPT !["control"] =
                    [pc |-> IF ~deviceIsRunning THEN "lock" ELSE "return",
                     operationID |-> "StartIO", status |-> "pending"]]
    /\ UNCHANGED <<sampleRate, ticksPerFrame, inputStreamIsActive, outputStreamIsActive,
                   inputVolume, outputVolume, ringVars, hostClock, lastZeroTimeStamp, call,
                   histVars, plugInVars, ringBufferMutex>>

\* SurgeAudioDriver_StopIO, which takes no mutex.
Thread_StopIO ==
    /\ thread["control"].pc = "idle"
    /\ deviceIsRunning' = FALSE
    /\ thread' = [thread EXCEPT !["control"] =
                    [pc |-> "return", operationID |-> "StopIO", status |-> "pending"]]
    /\ UNCHANGED <<sampleRate, ticksPerFrame, inputStreamIsActive, outputStreamIsActive,
                   inputVolume, outputVolume, ringVars, timeVars, call, histVars,
                   plugInVars, ringBufferMutex>>

\* A lock that is granted while another thread holds the mutex.
pthread_mutex_lock_NoWait(t) ==
    /\ thread[t].pc = "lock"
    /\ ringBufferMutex' = t
    /\ thread' = [thread EXCEPT ![t].pc = "loop"]
    /\ UNCHANGED <<driverVars, ringVars, timeVars, call, histVars, plugInVars>>

\* pthread_mutex_lock(&gDriverState.ringBufferMutex): the thread goes on when
\* the mutex is free.
pthread_mutex_lock(t) ==
    /\ thread[t].pc = "lock"
    /\ ringBufferMutex = "free"
    /\ ringBufferMutex' = t
    /\ thread' = [thread EXCEPT ![t].pc = "loop"]
    /\ UNCHANGED <<driverVars, ringVars, timeVars, call, histVars, plugInVars>>

\* The body between lock and unlock: the write loop, the read loop, or the
\* memset and position reset of StartIO.  ioBufferFrameSize is read by the
\* loop only, and is drawn here.
Thread_Loop(t) ==
    /\ thread[t].pc = "loop"
    /\ ringBufferMutex = t
    /\ \E ioBufferFrameSize \in FrameSizes :
       LET numSamples == ioBufferFrameSize * kChannelsPerFrame IN
       CASE thread[t].operationID = "WriteMix" ->
              LET res == WriteLoop(ringBuffer, ringBufferWritePosition,
                                   FullScale(numSamples), numSamples, outputVolume)
              IN  /\ ringBuffer' = res.ring
                  /\ ringBufferWritePosition' = res.pos
                  /\ UNCHANGED ringBufferReadPosition
         [] thread[t].operationID = "ReadInput" ->
              /\ ringBufferReadPosition' =
                     ReadLoop(ringBuffer, ringBufferReadPosition, numSamples,
                              inputVolume).pos
              /\ UNCHANGED <<ringBuffer, ringBufferWritePosition>>
         [] OTHER ->
              /\ ringBuffer' = ZeroRing
              /\ ringBufferWritePosition' = 0
              /\ ringBufferReadPosition' = 0
    /\ thread' = [thread EXCEPT ![t].pc = "unlock"]
    /\ UNCHANGED <<driverVars, timeVars, call, histVars, plugInVars, ringBufferMutex>>

\* pthread_mutex_unlock(&gDriverState.ringBufferMutex).
pthread_mutex_unlock(t) ==
    /\ thread[t].pc = "unlock"
    /\ ringBufferMutex = t
    /\ ringBufferMutex' = Unlocked(ringBufferMutex)
    /\ thread' = [thread EXCEPT ![t].pc = "return"]
    /\ UNCHANGED <<driverVars, ringVars, timeVars, call, histVars, plugInVars>>

\* The call returns its result, which no path changes from
\* kAudioHardwareNoError.
Thread_Return(t) ==
    /\ thread[t].pc = "return"
    /\ thread' = [thread EXCEPT ![t] =
                    [pc |-> "idle", operationID |-> "None", status |-> "NoError"]]
    /\ UNCHANGED <<driverVars, ringVars, timeVars, call, histVars, plugInVars,
                   ringBufferMutex>>

ThreadNext ==
    \/ \E t \in IOThreads : Thread_DoIOOperation(t)
    \/ Thread_StartIO
    \/ Thread_StopIO
    \/ \E t \in Threads : pthread_mutex_lock(t)
    \/ \E t \in Threads : Thread_Loop(t)
    \/ \E t \in Threads : pthread_mutex_unlock(t)
    \/ \E t \in Threads : Thread_Return(t)

\* A thread inside the driver keeps running, and a thread waiting for the
\* mutex gets it if the mutex is free again and again; the host is free to
\* make no further call.
ThreadFairness ==
    \A t \in Threads :
      /\ SF_vars(pthread_mutex_lock(t))
      /\ WF_vars(Thread_Loop(t))
      /\ WF_vars(pthread_mutex_unlock(t))
      /\ WF_vars(Thread_Return(t))

ThreadSpec == Init /\ [][ThreadNext]_vars /\ ThreadFairness

(***************************************************************************)
(* The plug-in interface: reference counting, interface queries and the    *)
(* I/O operations a driver announces, for the loopback driver and for the  *)
(* shared-memory variant (audio_driver_complete.c, audio_driver.c)         *)
(***************************************************************************)
\* The bytes SurgeAudioDriver_QueryInterface compares with, which are the
\* plug-in type the factory checks for, and the IUnknown id.
audioPlugInInterfaceUUID == "443ABAB8-E7B3-491A-B985-BEB9187030DB"
iUnknownUUID == "00000000-0000-0000-C000-000000000046"
\* CoreAudio's and CoreFoundation's interface ids.
kAudioServerPlugInTypeUUID == "443ABAB8-E7B3-491A-B985-BEB9187030DB"
kAudioServerPlugInDriverInterfaceUUID == "EEA5773D-CC43-49F1-8E00-8F96E7D23B17"
kIOCFPlugInInterfaceID == "C244E858-109C-11D4-91D4-0050E4C6426F"

\* The identifiers the host asks for: the driver interface, the base object,
\* the plug-in type, the CFPlugIn interface and an arbitrary one.
UUIDInputs ==
    {kAudioServerPlugInDriverInterfaceUUID, iUnknownUUID, kAudioServerPlugInTypeUUID,
     kIOCFPlugInInterfaceID, "7B2F0C1A-5D3E-4F60-9A41-1C2D3E4F5A6B"}

\* kAudioServerPlugInIOOperation*.
IOOperations ==
    {"Thread", "Cycle", "ReadInput", "ConvertInput", "ProcessInput", "ProcessOutput",
     "MixOutput", "ProcessMix", "ConvertMix", "WriteMix"}

\* The history of one more reference taken.
RefAdded(h) == [h EXCEPT !.adds = @ + 1]
\* The history of one more Release: balanced while every Release so far was
\* preceded by its AddRef.
RefReleased(h, tornDown) ==
    [h EXCEPT !.releases = @ + 1,
              !.balanced = @ /\ h.releases < h.adds,
              !.teardowns = IF tornDown THEN @ + 1 ELSE @]

MayAddRef(h) == h.adds < MaxRefs
MayRelease(h) == h.releases < h.adds + MaxExtraReleases

\* SurgeAudioDriver_AddRef.
AddRef ==
    /\ MayAddRef(refHistory.surge)
    /\ gDriverRefCount' = gDriverRefCount + 1
    /\ refHistory' = [refHistory EXCEPT !.surge = RefAdded(@)]
    /\ call' = [op |-> "AddRef", driver |-> "surge", result |-> gDriverRefCount + 1]
    /\ UNCHANGED <<driverVars, ringVars, histVars, timeVars, ringBufferFreed, variantVars,
                   loaded, captureVars, threadVars>>

\* Mutant of Released: the guard is off by one.
Released_AboveOne(count) == IF count > 1 THEN count - 1 ELSE count

\* The count SurgeAudioDriver_Release leaves.
Released(count) == IF count > 0 THEN count - 1 ELSE count

\* SurgeAudioDriver_Release: CleanupDriverState runs when the count is zero
\* afterwards.
Release ==
    /\ MayRelease(refHistory.surge)
    /\ gDriverRefCount' = Released(gDriverRefCount)
    /\ ringBufferFreed' = (ringBufferFreed \/ Released(gDriverRefCount) = 0)
    /\ refHistory' = [refHistory EXCEPT
                         !.surge = RefReleased(@, Released(gDriverRefCount) = 0)]
    /\ call' = [op |-> "Release", driver |-> "surge",
                result |-> Released(gDriverRefCount)]
    /\ UNCHANGED <<driverVars, ringVars, histVars, timeVars, variantVars, loaded, captureVars, threadVars>>

\* SurgeAudioDriver_QueryInterface.
QueryInterface ==
    \E uuid \in UUIDInputs :
      IF uuid = audioPlugInInterfaceUUID \/ uuid = iUnknownUUID
         THEN /\ MayAddRef(refHistory.surge)
              /\ gDriverRefCount' = gDriverRefCount + 1
              /\ refHistory' = [refHistory EXCEPT !.surge = RefAdded(@)]
              /\ call' = [op |-> "QueryInterface", driver |-> "surge", uuid |-> uuid,
                          result |-> "S_OK", interface |-> "driver",
                          countBefore |-> gDriverRefCount]
              /\ UNCHANGED <<driverVars, ringVars, histVars, timeVars, ringBufferFreed,
                             variantVars, loaded, captureVars, threadVars>>
         ELSE /\ call' = [op |-> "QueryInterface", driver |-> "surge", uuid |-> uuid,
                          result |-> "E_NOINTERFACE", interface |-> "NULL",
                          countBefore |-> gDriverRefCount]
              /\ UNCHANGED <<driverVars, ringVars, histVars, timeVars, plugInVars, threadVars>>

\* What SurgeAudioDriver_WillDoIOOperation answers.
WillDoIOOperationAnswer(operationID) ==
    IF operationID \in {"ReadInput", "WriteMix"}
       THEN [outWillDo |-> TRUE, outWillDoInPlace |-> TRUE]
       ELSE [outWillDo |-> FALSE, outWillDoInPlace |-> TRUE]

\* SurgeAudioDriver_WillDoIOOperation.
WillDoIOOperation ==
    \E operationID \in IOOperations :
      /\ call' = [op |-> "WillDoIOOperation", driver |-> "surge",
                  operationID |-> operationID, status |-> "NoError",
                  outWillDo |-> WillDoIOOperationAnswer(operationID).outWillDo,
                  outWillDoInPlace |->
                      WillDoIOOperationAnswer(operationID).outWillDoInPlace]
      /\ UNCHANGED <<driverVars, ringVars, histVars, timeVars, plugInVars, threadVars>>

\* AudioDriver_CreateSharedMemory when shm_open, ftruncate and mmap succeed:
\* the region is linked and mapped and its header is initialised.
CreateSharedMemory ==
    [NoRegion EXCEPT !.linked = TRUE, !.active = FALSE, !.sample_rate = 48000,
                     !.channels = 1, !.frame_size = sizeof_Float32,
                     !.write_position = 0, !.read_position = 0]

\* Variant, AudioDriver_Initialize: the state is cleared and the shared region
\* is created, mapped and marked inactive; when the creation fails the region
\* is unlinked again and NULL is returned.  The host initialises a driver
\* until it has succeeded.
Variant_Initialize ==
    /\ g_driver_state.shared_memory = "NULL"
    /\ \E created \in BOOLEAN :
         /\ g_driver_state' = [shared_memory |-> IF created THEN "mapped" ELSE "NULL",
                               is_capture_active |-> FALSE,
                               is_device_created |-> FALSE]
         /\ sharedRegion' = IF created THEN CreateSharedMemory ELSE NoRegion
         /\ call' = [op |-> "Initialize", driver |-> "variant",
                     result |-> IF created THEN "driver_ref" ELSE "NULL"]
    /\ UNCHANGED <<driverVars, ringVars, histVars, timeVars, surgeRefVars, g_ref_count,
                   refHistory, loaded, captureVars, threadVars>>

\* A start or stop that marks the state and leaves the shared region alone.
Variant_SetActive_StateOnly(op, active) ==
    /\ g_driver_state' = [g_driver_state EXCEPT !.is_capture_active = active]
    /\ call' = [op |-> op, driver |-> "variant", status |-> "NoError"]
    /\ UNCHANGED <<driverVars, ringVars, histVars, timeVars, surgeRefVars, g_ref_count,
                   sharedRegion, refHistory, loaded, captureVars, threadVars>>

\* Variant, StartIO and StopIO: capture is marked active or inactive, in the
\* state and, when there is one, in the shared region.
Variant_SetActive(op, active) ==
    /\ g_driver_state' = [g_driver_state EXCEPT !.is_capture_active = active]
    /\ sharedRegion' = IF g_driver_state.shared_memory # "NULL"
                          THEN [sharedRegion EXCEPT !.active = active]
                          ELSE sharedRegion
    /\ call' = [op |-> op, driver |-> "variant", status |-> "NoError"]
    /\ UNCHANGED <<driverVars, ringVars, histVars, timeVars, surgeRefVars, g_ref_count,
                   refHistory, loaded, captureVars, threadVars>>

Variant_StartIO == Variant_SetActive("StartIO", TRUE)
Variant_StopIO == Variant_SetActive("StopIO", FALSE)

\* Variant, AddRef.
Variant_AddRef ==
    /\ MayAddRef(refHistory.variant)
    /\ g_ref_count' = g_ref_count + 1
    /\ refHistory' = [refHistory EXCEPT !.variant = RefAdded(@)]
    /\ call' = [op |-> "AddRef", driver |-> "variant", result |-> g_ref_count + 1]
    /\ UNCHANGED <<driverVars, ringVars, histVars, timeVars, surgeRefVars,
                   g_driver_state, sharedRegion, loaded, captureVars, threadVars>>

\* Variant, Release: the count is decremented and nothing else is done.
Variant_Release ==
    /\ MayRelease(refHistory.variant)
    /\ g_ref_count' = Released(g_ref_count)
    /\ refHistory' = [refHistory EXCEPT !.variant = RefReleased(@, FALSE)]
    /\ call' = [op |-> "Release", driver |-> "variant", result |-> Released(g_ref_count)]
    /\ UNCHANGED <<driverVars, ringVars, histVars, timeVars, surgeRefVars,
                   g_driver_state, sharedRegion, loaded, captureVars, threadVars>>

\* Variant, QueryInterface.
Variant_QueryInterface ==
    \E uuid \in UUIDInputs, out_interface \in {"NULL", "valid"} :
      CASE out_interface = "NULL" ->
             /\ call' = [op |-> "QueryInterface", driver |-> "variant", uuid |-> uuid,
                         result |-> "E_POINTER", interface |-> "unwritten",
                         countBefore |-> g_ref_count]
             /\ UNCHANGED <<driverVars, ringVars, histVars, timeVars, plugInVars, threadVars>>
        [] out_interface # "NULL" /\ uuid = kIOCFPlugInInterfaceID ->
             /\ MayAddRef(refHistory.variant)
             /\ g_ref_count' = g_ref_count + 1
             /\ refHistory' = [refHistory EXCEPT !.variant = RefAdded(@)]
             /\ call' = [op |-> "QueryInterface", driver |-> "variant", uuid |-> uuid,
                         result |-> "S_OK", interface |-> "driver",
                         countBefore |-> g_ref_count]
             /\ UNCHANGED <<driverVars, ringVars, histVars, timeVars, surgeRefVars,
                            g_driver_state, sharedRegion, loaded, captureVars, threadVars>>
        [] OTHER ->
             /\ call' = [op |-> "QueryInterface", driver |-> "variant", uuid |-> uuid,
                         result |-> "E_NOINTERFACE", interface |-> "NULL",
                         countBefore |-> g_ref_count]
             /\ UNCHANGED <<driverVars, ringVars, histVars, timeVars, plugInVars, threadVars>>

\* Variant, WillDoIOOperation: every operation is announced.
Variant_WillDoIOOperation ==
    \E operationID \in IOOperations :
      /\ call' = [op |-> "WillDoIOOperation", driver |-> "variant",
                  operationID |-> operationID, status |-> "NoError",
                  outWillDo |-> TRUE, outWillDoInPlace |-> TRUE]
      /\ UNCHANGED <<driverVars, ringVars, histVars, timeVars, plugInVars, threadVars>>

\* Variant, DoIOOperation: nothing is read or written.
Variant_DoIOOperation ==
    \E operationID \in IOOperations, ioBufferFrameSize \in 1..MaxRegionFrames :
      /\ call' = [op |-> "DoIOOperation", driver |-> "variant",
                  operationID |-> operationID,
                  ioBufferFrameSize |-> ioBufferFrameSize, status |-> "NoError"]
      /\ UNCHANGED <<driverVars, ringVars, histVars, timeVars, plugInVars, threadVars>>

\* The interleaved stereo buffers the host hands to the IOProc: a frame
\* differs from the next one and the two channels of a frame differ.
StereoBuffers(frame_count) ==
    { [k \in 1..(2 * frame_count) |->
          IF k % 2 = 1 THEN left + 2 * (((k + 1) \div 2) % 2)
                       ELSE 4 * ((k \div 2) % 2)] :
      left \in {F_ONE} }

\* A downmix that takes the left channel for the mean.
DownmixStereoToMono_LeftOnly(stereo_input, frame_count) ==
    [i \in 1..frame_count |-> stereo_input[2 * i - 1]]

\* AudioDriver_DownmixStereoToMono.
DownmixStereoToMono(stereo_input, frame_count) ==
    [i \in 1..frame_count |->
        FMul(stereo_input[2 * i - 1] + stereo_input[2 * i], F_HALF)]

\* A write that moves the reader out of the way when it laps it.
WriteToRingBuffer_PushReader(region, stereo_data, frame_count) ==
    IF ~region.active \/ frame_count = 0 THEN region
    ELSE [region EXCEPT
            !.write_position = (@ + frame_count) % RING_BUFFER_FRAMES,
            !.read_position = IF frame_count >= RING_BUFFER_FRAMES
                                 THEN (region.write_position + frame_count)
                                         % RING_BUFFER_FRAMES
                                 ELSE @]

\* AudioDriver_WriteToRingBuffer: nothing for an inactive region or an empty
\* buffer; else the downmixed frames are stored from write_position on,
\* modulo RING_BUFFER_FRAMES, and write_position moves by frame_count.
WriteToRingBuffer(region, stereo_data, frame_count) ==
    IF ~region.active \/ frame_count = 0 THEN region
    ELSE LET mono_buffer == DownmixStereoToMono(stereo_data, frame_count)
             write_pos == region.write_position
             Last(j) == CHOOSE i \in 0..(frame_count - 1) :
                           /\ (write_pos + i) % RING_BUFFER_FRAMES = j
                           /\ \A i2 \in 0..(frame_count - 1) :
                                 (write_pos + i2) % RING_BUFFER_FRAMES = j => i2 <= i
         IN  [region EXCEPT
                !.buffer = [j \in DOMAIN region.buffer |->
                              IF \E i \in 0..(frame_count - 1) :
                                    (write_pos + i) % RING_BUFFER_FRAMES = j
                                 THEN mono_buffer[Last(j) + 1]
                                 ELSE region.buffer[j]],
                !.write_position = (write_pos + frame_count) % RING_BUFFER_FRAMES]

\* Variant, AudioDriver_IOProc: the input is captured to the shared ring when
\* there is one; the result of the write is not looked at.
Variant_IOProc ==
    \E frame_count \in 0..MaxRegionFrames :
      \E stereo_data \in StereoBuffers(frame_count) :
        /\ sharedRegion' = IF g_driver_state.shared_memory # "NULL"
                              THEN WriteToRingBuffer(sharedRegion, stereo_data, frame_count)
                              ELSE sharedRegion
        /\ call' = [op |-> "IOProc", driver |-> "variant", frame_count |-> frame_count,
                    in_input_data |-> stereo_data, status |-> "NoError"]
        /\ UNCHANGED <<driverVars, ringVars, histVars, timeVars, surgeRefVars,
                       g_ref_count, g_driver_state, refHistory, loaded, captureVars, threadVars>>

\* The external reader, another process that has opened the named region,
\* stores the position it has read up to.
ExternalReader ==
    /\ sharedRegion.linked
    /\ \E read_position \in 0..(RING_BUFFER_FRAMES - 1) :
         /\ sharedRegion' = [sharedRegion EXCEPT !.read_position = read_position]
         /\ call' = [op |-> "ExternalRead", driver |-> "reader",
                     read_position |-> read_position]
    /\ UNCHANGED <<driverVars, ringVars, histVars, timeVars, surgeRefVars,
                   g_ref_count, g_driver_state, refHistory, loaded, captureVars, threadVars>>

\* Variant, CreateDevice (AudioDriver_AddDevice): the device is marked created.
Variant_AddDevice ==
    /\ g_driver_state' = [g_driver_state EXCEPT !.is_device_created = TRUE]
    /\ call' = [op |-> "CreateDevice", driver |-> "variant", status |-> "NoError"]
    /\ UNCHANGED <<driverVars, ringVars, histVars, timeVars, surgeRefVars, g_ref_count,
                   sharedRegion, refHistory, loaded, captureVars, threadVars>>

\* Variant, DestroyDevice (AudioDriver_RemoveDevice): the device is marked
\* not created and capture inactive, in the state and in the shared region.
Variant_RemoveDevice ==
    /\ g_driver_state' = [g_driver_state EXCEPT !.is_device_created = FALSE,
                                                !.is_capture_active = FALSE]
    /\ sharedRegion' = IF g_driver_state.shared_memory # "NULL"
                          THEN [sharedRegion EXCEPT !.active = FALSE]
                          ELSE sharedRegion
    /\ call' = [op |-> "DestroyDevice", driver |-> "variant", status |-> "NoError"]
    /\ UNCHANGED <<driverVars, ringVars, histVars, timeVars, surgeRefVars, g_ref_count,
                   refHistory, loaded, captureVars, threadVars>>

\* What the host passes to the variant's SetPropertyData: the object is the
\* device or not, the address is missing or names a selector, and the data
\* are a UInt32 or too short.
VariantObjects == {"device_object_id", "other"}
VariantAddresses == {"NULL", "kAudioDevicePropertyDeviceIsRunning",
                     "kAudioDevicePropertyNominalSampleRate"}
VariantDataSizes == {0, sizeof_UInt32}
IsRunningInputs == {0, 1, 2}

\* AudioDriver_SetPropertyData: the running flag of the device is the one
\* property that can be set; it goes to the state and to the shared region.
Variant_SetPropertyData ==
    \E in_object_id \in VariantObjects, in_address \in VariantAddresses,
       in_data_size \in VariantDataSizes, is_running \in IsRunningInputs :
      LET sets == /\ in_address = "kAudioDevicePropertyDeviceIsRunning"
                  /\ in_object_id = "device_object_id"
                  /\ in_data_size >= sizeof_UInt32
      IN  /\ g_driver_state' = IF sets
                                  THEN [g_driver_state EXCEPT
                                          !.is_capture_active = (is_running # 0)]
                                  ELSE g_driver_state
          /\ sharedRegion' = IF sets /\ g_driver_state.shared_memory # "NULL"
                                THEN [sharedRegion EXCEPT !.active = (is_running # 0)]
                                ELSE sharedRegion
          /\ call' = [op |-> "SetPropertyData", driver |-> "variant",
                      in_object_id |-> in_object_id, in_address |-> in_address,
                      in_data_size |-> in_data_size, is_running |-> is_running,
                      status |-> IF sets THEN "NoError" ELSE "IllegalOperation"]
          /\ UNCHANGED <<driverVars, ringVars, histVars, timeVars, surgeRefVars,
                         g_ref_count, refHistory, loaded, captureVars, threadVars>>

\* GetDevicePropertyData, kAudioDevicePropertyDeviceIsRunning, with room for
\* a UInt32.
Variant_GetDeviceIsRunning ==
    /\ call' = [op |-> "GetPropertyData", driver |-> "variant",
                in_address |-> "kAudioDevicePropertyDeviceIsRunning",
                out_data |-> IF g_driver_state.is_capture_active THEN 1 ELSE 0,
                out_data_size |-> sizeof_UInt32, status |-> "NoError"]
    /\ UNCHANGED <<driverVars, ringVars, histVars, timeVars, plugInVars, threadVars>>

\* The calls of the variant that start, stop and report capture, next to
\* the writer and the reader of the region.
CaptureFlagInit == Created /\ loaded = "variant"

CaptureFlagNext ==
    \/ Variant_Initialize
    \/ Variant_StartIO
    \/ Variant_StopIO
    \/ Variant_AddDevice
    \/ Variant_RemoveDevice
    \/ Variant_SetPropertyData
    \/ Variant_GetDeviceIsRunning
    \/ Variant_IOProc
    \/ ExternalReader

CaptureFlagSpec == CaptureFlagInit /\ [][CaptureFlagNext]_vars

\* The host loads one of the two plug-ins and calls into it.
PlugInInit == Created /\ loaded \in {"surge", "variant"}

PlugInNext ==
    \/ (loaded = "surge" /\ AddRef)
    \/ (loaded = "surge" /\ Release)
    \/ (loaded = "surge" /\ QueryInterface)
    \/ (loaded = "surge" /\ WillDoIOOperation)
    \/ (loaded = "surge" /\ StartIO)
    \/ (loaded = "surge" /\ StopIO)
    \/ (loaded = "variant" /\ Variant_Initialize)
    \/ (loaded = "variant" /\ Variant_StartIO)
    \/ (loaded = "variant" /\ Variant_StopIO)
    \/ (loaded = "variant" /\ Variant_AddRef)
    \/ (loaded = "variant" /\ Variant_Release)
    \/ (loaded = "variant" /\ Variant_QueryInterface)
    \/ (loaded = "variant" /\ Variant_WillDoIOOperation)

PlugInSpec == PlugInInit /\ [][PlugInNext]_vars

(***************************************************************************)
(* The two rings: the in-process ring of the loopback driver with blocks   *)
(* of any size, blocks larger than the ring included, and the shared ring  *)
(* of the variant with its external reader                                 *)
(***************************************************************************)
\* Block sizes up to a whole session, which is more than the ring holds.
AnyFrameSizes == 1..MaxSessionFrames

WriteMixAny == WriteMixOf(AnyFrameSizes)
ReadInputAny == ReadInputOf(AnyFrameSizes)

RingNext ==
    \/ (loaded = "surge" /\ StartIO)
    \/ (loaded = "surge" /\ StopIO)
    \/ (loaded = "surge" /\ WriteMixAny)
    \/ (loaded = "surge" /\ ReadInputAny)
    \/ (loaded = "variant" /\ Variant_Initialize)
    \/ (loaded = "variant" /\ Variant_StartIO)
    \/ (loaded = "variant" /\ Variant_StopIO)
    \/ (loaded = "variant" /\ Variant_DoIOOperation)
    \/ (loaded = "variant" /\ Variant_IOProc)
    \/ (loaded = "variant" /\ ExternalReader)

RingSpec == PlugInInit /\ [][RingNext]_vars

(***************************************************************************)
(* The block copies sample by sample: each iteration of the write loop and *)
(* of the read loop, and each store of the reset of StartIO, is a step of  *)
(* its thread, so that the steps of two blocks interleave unless the       *)
(* mutex keeps them apart                                                  *)
(***************************************************************************)
\* The two positions a thread found when it began its block.
NoSnapshot == [w |-> 0, r |-> 0]

\* The stores of the reset of StartIO: one per slot of the memset, then the
\* write position, then the read position.
ResetSteps == kRingBufferSize + 2

\* SurgeAudioDriver_DoIOOperation is entered with its frame count.
Block_DoIOOperation(t) ==
    /\ t \in IOThreads
    /\ thread[t].pc = "idle"
    /\ \E operationID \in ThreadOperations, ioBufferFrameSize \in FrameSizes :
         thread' = [thread EXCEPT ![t] =
                      IF operationID \in LockedOperations
                         THEN [pc |-> "lock", operationID |-> operationID,
                               status |-> "pending",
                               numSamples |-> ioBufferFrameSize * kChannelsPerFrame,
                               i |-> 0, at |-> NoSnapshot, seen |-> <<>>]
                         ELSE [pc |-> "return", operationID |-> operationID,
                               status |-> "pending"]]
    /\ UNCHANGED <<driverVars, ringVars, timeVars, call, histVars, plugInVars,
                   ringBufferMutex>>

\* SurgeAudioDriver_StartIO is entered.
Block_StartIO ==
    /\ thread["control"].pc = "idle"
    /\ IF ~deviceIsRunning
          THEN /\ anchorHostTime' = hostClock
               /\ anchorSampleTime' = 0
               /\ deviceIsRunning' = TRUE
          ELSE UNCHANGED <<anchorHostTime, anchorSampleTime, deviceIsRunning>>
    /\ thread' = [thread EXCEPT !["control"] =
                    IF ~deviceIsRunning
                       THEN [pc |-> "lock", operationID |-> "StartIO",
                             status |-> "pending", numSamples |-> ResetSteps,
                             i |-> 0, at |-> NoSnapshot, seen |-> <<>>]
                       ELSE [pc |-> "return", operationID |-> "StartIO",
                             status |-> "pending"]]
    /\ UNCHANGED <<sampleRate, ticksPerFrame, inputStreamIsActive, outputStreamIsActive,
                   inputVolume, outputVolume, ringVars, hostClock, lastZeroTimeStamp, call,
                   histVars, plugInVars, ringBufferMutex>>

\* One iteration of the loop the thread is in, or one store of the reset.
\* The loops do not look at the mutex.  The first step notes what the thread
\* found, and the last one sends it to the unlock.
Block_Step(t) ==
    LET c == thread[t]
        at == IF c.i = 0
                 THEN [w |-> ringBufferWritePosition, r |-> ringBufferReadPosition]
                 ELSE c.at
        next == [c EXCEPT !.i = c.i + 1, !.at = at,
                          !.pc = IF c.i + 1 = c.numSamples THEN "unlock" ELSE "loop"]
    IN  /\ c.pc = "loop"
        /\ CASE c.operationID = "WriteMix" ->
                  /\ ringBuffer' = [ringBuffer EXCEPT ![ringBufferWritePosition] =
                                      FMul(FullScale(c.numSamples)[c.i + 1], outputVolume)]
                  /\ ringBufferWritePosition' =
                        (ringBufferWritePosition + 1) % kRingBufferSize
                  /\ UNCHANGED ringBufferReadPosition
                  /\ thread' = [thread EXCEPT ![t] = next]
             [] c.operationID = "ReadInput" ->
                  /\ ringBufferReadPosition' =
                        (ringBufferReadPosition + 1) % kRingBufferSize
                  /\ UNCHANGED <<ringBuffer, ringBufferWritePosition>>
                  /\ thread' = [thread EXCEPT ![t] =
                                  [next EXCEPT !.seen =
                                     Append(c.seen, FMul(ringBuffer[ringBufferReadPosition],
                                                         inputVolume))]]
             [] OTHER ->
                  /\ ringBuffer' = IF c.i < kRingBufferSize
                                      THEN [ringBuffer EXCEPT ![c.i] = 0]
                                      ELSE ringBuffer
                  /\ ringBufferWritePosition' = IF c.i = kRingBufferSize
                                                   THEN 0 ELSE ringBufferWritePosition
                  /\ ringBufferReadPosition' = IF c.i = kRingBufferSize + 1
                                                  THEN 0 ELSE ringBufferReadPosition
                  /\ thread' = [thread EXCEPT ![t] = next]
        /\ UNCHANGED <<driverVars, timeVars, call, histVars, plugInVars, ringBufferMutex>>

\* pthread_mutex_unlock(&gDriverState.ringBufferMutex) after a block; the
\* loop counter and what the thread noted go out of scope.
Block_Unlock(t) ==
    /\ thread[t].pc = "unlock"
    /\ ringBufferMutex = t
    /\ ringBufferMutex' = Unlocked(ringBufferMutex)
    /\ thread' = [thread EXCEPT ![t] =
                    [pc |-> "return", operationID |-> thread[t].operationID,
                     status |-> "pending"]]
    /\ UNCHANGED <<driverVars, ringVars, timeVars, call, histVars, plugInVars>>

BlockNext ==
    \/ \E t \in IOThreads : Block_DoIOOperation(t)
    \/ Block_StartIO
    \/ Thread_StopIO
    \/ \E t \in Threads : pthread_mutex_lock(t)
    \/ \E t \in Threads : Block_Step(t)
    \/ \E t \in Threads : Block_Unlock(t)
    \/ \E t \in Threads : Thread_Return(t)

BlockSpec == Init /\ [][BlockNext]_vars

(***************************************************************************)
(* Loading: the drivers as their factories hand them to the host, whether  *)
(* or not the resources could be created, and the first I/O on them        *)
(***************************************************************************)
\* What a store or a load through the NULL ring pointer can do: the process
\* takes a fault, or the access has no effect that is seen.
NullRingOutcomes == {"Fault", "NoEffect"}

\* The process has taken a fault and makes no further step.
Faulted == call.op = "NullRingUse" /\ call.outcome = "Fault"

\* An operation goes through gDriverState.ringBuffer while it is NULL.
NullRingUse(op) ==
    /\ \E outcome \in NullRingOutcomes :
         call' = [op |-> "NullRingUse", in |-> op, outcome |-> outcome]
    /\ UNCHANGED <<driverVars, ringVars, timeVars, histVars, plugInVars, threadVars>>

\* SurgeAudioDriver_StartIO: the memset of a first start goes through the
\* ring pointer.
Load_StartIO ==
    /\ ~Faulted
    /\ IF ringBufferFreed /\ ~deviceIsRunning THEN NullRingUse("StartIO") ELSE StartIO

Load_StopIO == ~Faulted /\ StopIO

\* SurgeAudioDriver_DoIOOperation: both loops go through the ring pointer.
Load_WriteMix ==
    /\ ~Faulted
    /\ IF ringBufferFreed THEN NullRingUse("WriteMix") ELSE WriteMix

Load_ReadInput ==
    /\ ~Faulted
    /\ IF ringBufferFreed THEN NullRingUse("ReadInput") ELSE ReadInput

\* A property call, which does not go through the ring pointer.
Load_SetVolumeScalar == ~Faulted /\ SetVolumeScalar

LoadInit ==
    /\ \E calloc_result \in calloc_Results : CreatedWith(calloc_result)
    /\ loaded \in {"surge", "variant"}

LoadNext ==
    \/ (loaded = "surge" /\ Load_StartIO)
    \/ (loaded = "surge" /\ Load_StopIO)
    \/ (loaded = "surge" /\ Load_WriteMix)
    \/ (loaded = "surge" /\ Load_ReadInput)
    \/ (loaded = "surge" /\ Load_SetVolumeScalar)
    \/ (loaded = "variant" /\ Variant_Initialize)
    \/ (loaded = "variant" /\ Variant_StartIO)
    \/ (loaded = "variant" /\ Variant_StopIO)
    \/ (loaded = "variant" /\ Variant_DoIOOperation)
    \/ (loaded = "variant" /\ Variant_IOProc)

LoadSpec == LoadInit /\ [][LoadNext]_vars

(***************************************************************************)
(* The life of the loopback driver: references taken and given back, with  *)
(* the I/O calls that go through the ring between them and after them      *)
(***************************************************************************)
Life_AddRef == ~Faulted /\ AddRef
Life_Release == ~Faulted /\ Release
Life_QueryInterface == ~Faulted /\ QueryInterface

LifeNext ==
    \/ Life_AddRef
    \/ Life_Release
    \/ Life_QueryInterface
    \/ Load_StartIO
    \/ Load_StopIO
    \/ Load_WriteMix

LifeSpec == Init /\ [][LifeNext]_vars

\* ---------------------------------------------------------------------------
\* The Windows speaker capture client (CaptureSpec)
\* ---------------------------------------------------------------------------
\* The JavaScript thread calls start(), stop() and isActive() one at a time
\* and may finalise the object; each capture thread runs CaptureThreadFunc.
\* Steps are the reads and writes of isCapturing_ and of captureThread_, and
\* the calls whose result decides the path.

otherVars == <<driverVars, ringVars, timeVars, call, histVars, surgeRefVars,
               variantVars, refHistory, loaded, threadVars>>

\* A capture thread that has been spawned and has not returned yet.
LivePositions == {"init", "exiting", "loop", "inner", "send", "release",
                  "stopping"}
LiveThreads == {id \in CaptureThreadIds : captureThreads[id] \in LivePositions}
Unborn == {id \in CaptureThreadIds : captureThreads[id] = "unborn"}
NextThreadId == CHOOSE id \in Unborn : \A other \in Unborn : id <= other

\* std::terminate has ended the process.
Terminated == js.pc = "terminated"

Returned(op, result) ==
    [js EXCEPT !.pc = "idle", !.op = op, !.result = result,
               !.spawned = NotAThread]

\* Start, up to the construction of the std::thread: refuses while
\* isCapturing_ is set, else sets it and spawns the thread.
Start ==
    /\ js.pc = "idle"
    /\ IF isCapturing_
       THEN /\ js' = Returned("Start", "false")
            /\ UNCHANGED <<isCapturing_, captureThreads>>
       ELSE /\ Unborn # {}
            /\ isCapturing_' = TRUE
            /\ captureThreads' = [captureThreads EXCEPT ![NextThreadId] = "init"]
            /\ js' = [js EXCEPT !.pc = "Start_assign", !.op = "Start",
                                !.result = "none", !.spawned = NextThreadId,
                                !.stopped = FALSE]
    /\ UNCHANGED <<captureThread_, tsfnCalls, otherVars>>

\* Start, the move assignment to captureThread_ and the return: assigning to
\* a std::thread that is joinable calls std::terminate.
Start_Assign ==
    /\ js.pc = "Start_assign"
    /\ IF captureThread_ # NotAThread
       THEN /\ js' = [js EXCEPT !.pc = "terminated"]
            /\ UNCHANGED captureThread_
       ELSE /\ captureThread_' = js.spawned
            /\ js' = Returned("Start", "true")
    /\ UNCHANGED <<isCapturing_, captureThreads, tsfnCalls, otherVars>>

\* Stop without the join: clears isCapturing_ and returns while the capture
\* thread is still running.
Stop_NoJoin ==
    /\ js.pc = "idle"
    /\ IF ~isCapturing_
       THEN /\ js' = Returned("Stop", "undefined")
            /\ UNCHANGED isCapturing_
       ELSE /\ isCapturing_' = FALSE
            /\ js' = [Returned("Stop", "undefined") EXCEPT !.stopped = TRUE]
    /\ UNCHANGED <<captureThread_, captureThreads, tsfnCalls, otherVars>>

\* Stop, up to the join: returns at once when isCapturing_ is clear, else
\* clears it and waits for captureThread_ if it is joinable.
Stop ==
    /\ js.pc = "idle"
    /\ IF ~isCapturing_
       THEN /\ js' = Returned("Stop", "undefined")
            /\ UNCHANGED isCapturing_
       ELSE /\ isCapturing_' = FALSE
            /\ js' = IF captureThread_ # NotAThread
                     THEN [js EXCEPT !.pc = "Stop_join", !.op = "Stop",
                                     !.result = "none"]
                     ELSE [Returned("Stop", "undefined") EXCEPT !.stopped = TRUE]
    /\ UNCHANGED <<captureThread_, captureThreads, tsfnCalls, otherVars>>

\* Stop, captureThread_.join() and the return: join returns once the thread
\* has returned and leaves captureThread_ not joinable.
Stop_Join ==
    /\ js.pc = "Stop_join"
    /\ captureThreads[captureThread_] = "done"
    /\ captureThread_' = NotAThread
    /\ js' = [Returned("Stop", "undefined") EXCEPT !.stopped = TRUE]
    /\ UNCHANGED <<isCapturing_, captureThreads, tsfnCalls, otherVars>>

\* IsActive: reports isCapturing_.
IsActive ==
    /\ js.pc = "idle"
    /\ js' = Returned("IsActive", IF isCapturing_ THEN "true" ELSE "false")
    /\ UNCHANGED <<isCapturing_, captureThread_, captureThreads, tsfnCalls,
                   otherVars>>

\* ~AudioCaptureAddon, up to the join: joins only when isCapturing_ is set.
Destructor ==
    /\ js.pc = "idle"
    /\ IF isCapturing_
       THEN /\ isCapturing_' = FALSE
            /\ js' = [js EXCEPT !.op = "Destructor", !.result = "none",
                                !.pc = IF captureThread_ # NotAThread
                                       THEN "Destructor_join"
                                       ELSE "Destructor_members"]
       ELSE /\ js' = [js EXCEPT !.op = "Destructor", !.result = "none",
                                !.pc = "Destructor_members"]
            /\ UNCHANGED isCapturing_
    /\ UNCHANGED <<captureThread_, captureThreads, tsfnCalls, otherVars>>

\* ~AudioCaptureAddon, captureThread_.join().
Destructor_Join ==
    /\ js.pc = "Destructor_join"
    /\ captureThreads[captureThread_] = "done"
    /\ captureThread_' = NotAThread
    /\ js' = [js EXCEPT !.pc = "Destructor_members"]
    /\ UNCHANGED <<isCapturing_, captureThreads, tsfnCalls, otherVars>>

\* ~AudioCaptureAddon, from CleanupCOM to the end of the body, and then the
\* members' destructors: destroying a joinable std::thread calls
\* std::terminate.
Destructor_Members ==
    /\ js.pc = "Destructor_members"
    /\ js' = [js EXCEPT !.pc = IF captureThread_ # NotAThread
                               THEN "terminated" ELSE "destroyed"]
    /\ UNCHANGED <<isCapturing_, captureThread_, captureThreads, tsfnCalls,
                   otherVars>>

\* What a COM or audio-client call can answer.
HResults == {"S_OK", "FAILED"}
\* What GetNextPacketSize can report.
PacketSizes == {"FAILED", "empty", "packet"}
\* What GetBuffer can hand over.
Buffers == {"FAILED", "silent", "sound"}

Moved(id, position) == [captureThreads EXCEPT ![id] = position]

\* CaptureThreadFunc, from COM initialisation to the start of the audio
\* client: any step that fails clears isCapturing_ and returns.
CaptureThreadFunc_Setup(id) ==
    /\ ~Terminated
    /\ captureThreads[id] = "init"
    /\ \E hr \in HResults :
          IF hr = "FAILED"
          THEN /\ isCapturing_' = FALSE
               /\ captureThreads' = Moved(id, "exiting")
          ELSE /\ captureThreads' = Moved(id, "loop")
               /\ UNCHANGED isCapturing_
    /\ UNCHANGED <<captureThread_, js, tsfnCalls, otherVars>>

\* CaptureThreadFunc, the head of the capture loop: tests isCapturing_,
\* sleeps, asks for the packet size; a failure breaks out of the loop.
CaptureThreadFunc_Loop(id) ==
    /\ ~Terminated
    /\ captureThreads[id] = "loop"
    /\ IF ~isCapturing_
       THEN captureThreads' = Moved(id, "stopping")
       ELSE \E packetLength \in PacketSizes :
               captureThreads' =
                   Moved(id, CASE packetLength = "FAILED" -> "stopping"
                               [] packetLength = "empty" -> "loop"
                               [] packetLength = "packet" -> "inner")
    /\ UNCHANGED <<isCapturing_, captureThread_, js, tsfnCalls, otherVars>>

\* CaptureThreadFunc, the packet loop up to the test before the callback:
\* a failed GetBuffer leaves the packet loop only; sound is sent on when
\* isCapturing_ is still set.
CaptureThreadFunc_GetBuffer(id) ==
    /\ ~Terminated
    /\ captureThreads[id] = "inner"
    /\ \E buffer \in Buffers :
          /\ buffer = "sound" => tsfnCalls < MaxCallbacks
          /\ captureThreads' =
                 Moved(id, CASE buffer = "FAILED" -> "loop"
                             [] buffer = "silent" -> "release"
                             [] buffer = "sound" ->
                                    IF isCapturing_ THEN "send" ELSE "release")
    /\ UNCHANGED <<isCapturing_, captureThread_, js, tsfnCalls, otherVars>>

\* CaptureThreadFunc, tsfn_.NonBlockingCall: queues one callback.
CaptureThreadFunc_NonBlockingCall(id) ==
    /\ ~Terminated
    /\ captureThreads[id] = "send"
    /\ tsfnCalls' = tsfnCalls + 1
    /\ captureThreads' = Moved(id, "release")
    /\ UNCHANGED <<isCapturing_, captureThread_, js, otherVars>>

\* CaptureThreadFunc, ReleaseBuffer and the next GetNextPacketSize: a failure
\* of either leaves the packet loop only.
CaptureThreadFunc_ReleaseBuffer(id) ==
    /\ ~Terminated
    /\ captureThreads[id] = "release"
    /\ \E hr \in HResults, packetLength \in PacketSizes :
          captureThreads' =
              Moved(id, IF hr = "S_OK" /\ packetLength = "packet"
                        THEN "inner" ELSE "loop")
    /\ UNCHANGED <<isCapturing_, captureThread_, js, tsfnCalls, otherVars>>

\* CaptureThreadFunc returns: after a failed set-up, or after the loop
\* (stop the audio client, free the format, CleanupCOM).
CaptureThreadFunc_Return(id) ==
    /\ ~Terminated
    /\ captureThreads[id] \in {"exiting", "stopping"}
    /\ captureThreads' = Moved(id, "done")
    /\ UNCHANGED <<isCapturing_, captureThread_, js, tsfnCalls, otherVars>>

CaptureNext ==
    \/ Start
    \/ Start_Assign
    \/ Stop
    \/ Stop_Join
    \/ IsActive
    \/ Destructor
    \/ Destructor_Join
    \/ Destructor_Members
    \/ \E id \in CaptureThreadIds : CaptureThreadFunc_Setup(id)
    \/ \E id \in CaptureThreadIds : CaptureThreadFunc_Loop(id)
    \/ \E id \in CaptureThreadIds : CaptureThreadFunc_GetBuffer(id)
    \/ \E id \in CaptureThreadIds : CaptureThreadFunc_NonBlockingCall(id)
    \/ \E id \in CaptureThreadIds : CaptureThreadFunc_ReleaseBuffer(id)
    \/ \E id \in CaptureThreadIds : CaptureThreadFunc_Return(id)

CaptureSpec == Init /\ [][CaptureNext]_vars

(***************************************************************************)
(* Claims about the I/O engine                                             *)
(***************************************************************************)
IsReadInput == call.op = "DoIOOperation" /\ call.operationID = "ReadInput"

\* What the host wrote at the slot the i-th sample of the last read came from.
ReadSource(i) == shadow[(call.first + i - 1) % kRingBufferSize]

\* C1: the device is running exactly when more StartIO than StopIO calls
\* have been made.
C1_RunningIffClients == deviceIsRunning <=> (ioClients > 0)

\* C2: with both volumes 1.0, the n-th sample a read returns is the n-th
\* sample the host wrote in the session, as long as that sample has been
\* written and not been overwritten.
C2_LoopbackFidelity ==
    (IsReadInput /\ call.inputVolume = F_ONE) =>
        \A i \in 1..Len(call.ioMainBuffer) :
            (ReadSource(i).n = call.first + i - 1 /\ ReadSource(i).ov = F_ONE)
                => call.ioMainBuffer[i] = ReadSource(i).s

\* A read of two frames, after the ring has wrapped, that returns only
\* samples written in order at volume 1.0.
C2_Witness ==
    /\ IsReadInput
    /\ call.inputVolume = F_ONE
    /\ call.ioBufferFrameSize = 2
    /\ call.first + Len(call.ioMainBuffer) > kRingBufferSize
    /\ \A i \in 1..Len(call.ioMainBuffer) :
          /\ ReadSource(i).n = call.first + i - 1
          /\ ReadSource(i).ov = F_ONE
    /\ \E i, j \in 1..Len(call.ioMainBuffer) : call.ioMainBuffer[i] # call.ioMainBuffer[j]

\* C3 as stated: after N writes of K frames and N reads of K frames the read
\* index is N*K mod capacity.
C3_ReadIndexInFrames ==
    (deviceIsRunning /\ IsReadInput /\ framesRead = framesWritten)
        => ringBufferReadPosition = framesRead % kRingBufferSize

\* C3 as amended: the indices count samples; the read index is
\* N*K*kChannelsPerFrame mod kRingBufferSize, and it is the write index when
\* as many frames have been read as written.
C3_ReadIndexInSamples ==
    /\ ringBufferReadPosition = (framesRead * kChannelsPerFrame) % kRingBufferSize
    /\ ringBufferWritePosition = (framesWritten * kChannelsPerFrame) % kRingBufferSize
    /\ framesRead = framesWritten => ringBufferReadPosition = ringBufferWritePosition

\* As many frames read as written in a running session, past the wrap.
C3_Witness ==
    /\ deviceIsRunning
    /\ IsReadInput
    /\ framesRead = framesWritten
    /\ framesRead * kChannelsPerFrame > kRingBufferSize
    /\ ringBufferReadPosition = kChannelsPerFrame

\* C4: every sample a read returns is the sample the host wrote at that
\* slot, times the output volume in effect at the write, times the input
\* volume in effect at the read.
C4_VolumeScaling ==
    IsReadInput =>
        \A i \in 1..Len(call.ioMainBuffer) :
            call.ioMainBuffer[i] =
                FMul(FMul(ReadSource(i).s, ReadSource(i).ov), call.inputVolume)

\* 0.5 written at output volume 1.0 and read at input volume 0.5 gives 0.25,
\* after the output volume has been lowered as well.
C4_Witness ==
    /\ IsReadInput
    /\ call.inputVolume = F_HALF
    /\ outputVolume = F_HALF
    /\ \E i \in 1..Len(call.ioMainBuffer) :
          /\ ReadSource(i).s = F_HALF
          /\ ReadSource(i).ov = F_ONE
          /\ call.ioMainBuffer[i] = F_ONE \div 4

(***************************************************************************)
(* Claims about the property protocol (PropSpec)                           *)
(***************************************************************************)
IsCall(op) == call.op = op
PropertyCalls == {"IsPropertySettable", "GetPropertyDataSize", "GetPropertyData",
                  "SetPropertyData"}

\* What the driver publishes: itself, its device, the device's streams and
\* the device's control list.
PublishedObjects ==
    LET Elems(seq) == {seq[i] : i \in DOMAIN seq}
        Data(objectID, selector) == GetPropertyData(objectID, selector, "Global", "NULL").outData
    IN  {kObjectID_PlugIn}
          \cup Elems(Data(kObjectID_PlugIn, "kAudioPlugInPropertyDeviceList"))
          \cup Elems(Data(kObjectID_Device, "kAudioDevicePropertyStreams"))
          \cup Elems(Data(kObjectID_Device, "kAudioObjectPropertyControlList"))

\* C5: the current nominal sample rate is always one of the advertised rates;
\* a SetPropertyData of the device nominal sample rate with an advertised
\* value succeeds and makes it current, and with any other value it fails
\* with illegal-operation and leaves the rate and ticks-per-frame unchanged.
C5_SampleRateAdvertised ==
    /\ [](sampleRate \in AdvertisedRates)
    /\ [][(/\ call'.op = "SetPropertyData"
           /\ call'.objectID = kObjectID_Device
           /\ call'.selector = "kAudioDevicePropertyNominalSampleRate")
          => IF call'.inData \in AdvertisedRates
                THEN call'.status = "NoError" /\ sampleRate' = call'.inData
                ELSE /\ call'.status = "IllegalOperation"
                     /\ UNCHANGED <<sampleRate, ticksPerFrame>>]_vars

\* C6: whenever IsPropertySettable reports true for an object and selector, a
\* SetPropertyData of it with valid data returns success and a GetPropertyData
\* of the same property then returns the value set.
C6_SettableRoundTrip ==
    (/\ IsCall("SetPropertyData")
     /\ IsPropertySettable(call.objectID, call.selector).outIsSettable)
    => /\ call.status = "NoError"
       /\ GetPropertyData(call.objectID, call.selector, "Global", "NULL").outData
             = call.inData

\* C7: whenever HasProperty answers true for an object and address,
\* GetPropertyDataSize returns success with a size and GetPropertyData returns
\* success with data.
C7_HasImpliesSizeAndData ==
    (IsCall("HasProperty") /\ call.result)
    => \A scope \in Scopes(call.selector), qualifierData \in Qualifiers(call.selector) :
         /\ GetPropertyDataSize(call.objectID, call.selector, scope).status = "NoError"
         /\ GetPropertyData(call.objectID, call.selector, scope, qualifierData).status
               = "NoError"

\* C8: a GetPropertyData of a supported property whose buffer is smaller than
\* the property's size fails with bad-property-size and writes nothing.
C8_SmallBufferRejected ==
    (/\ IsCall("GetPropertyData")
     /\ GetPropertyDataSize(call.objectID, call.selector, call.scope).status = "NoError"
     /\ call.inDataSize
           < GetPropertyDataSize(call.objectID, call.selector, call.scope).outDataSize)
    => call.status = "BadPropertySize" /\ call.bytesWritten = 0

\* C9: a property operation on an object that is not published fails with
\* bad-object (HasProperty: answers false), and on a published object with a
\* selector the object does not have it fails with unknown-property; neither
\* changes driver state.
C9_BadObjectUnknownProperty ==
    [][/\ (call'.op = "HasProperty" /\ call'.objectID \notin PublishedObjects)
          => ~call'.result
       /\ (call'.op \in PropertyCalls /\ call'.objectID \notin PublishedObjects)
          => call'.status = "BadObject" /\ UNCHANGED <<driverVars, ringVars>>
       /\ (/\ call'.op \in PropertyCalls
           /\ call'.objectID \in PublishedObjects
           /\ ~HasProperty(call'.objectID, call'.selector))
          => call'.status = "UnknownProperty" /\ UNCHANGED <<driverVars, ringVars>>]_vars

\* C10: a SetPropertyData of any property other than device nominal sample
\* rate, stream active, stream format, volume scalar and volume decibel fails
\* with illegal-operation and leaves all driver state unchanged (on a published
\* object: C9 covers the others).
C10_OtherSetsIllegal ==
    [][(/\ call'.op = "SetPropertyData"
        /\ call'.objectID \in PublishedObjects
        /\ ~(\/ /\ call'.objectID = kObjectID_Device
                /\ call'.selector = "kAudioDevicePropertyNominalSampleRate"
             \/ /\ call'.objectID \in StreamObjects
                /\ call'.selector \in {"kAudioStreamPropertyIsActive",
                                       "kAudioStreamPropertyVirtualFormat",
                                       "kAudioStreamPropertyPhysicalFormat"}
             \/ /\ call'.objectID \in VolumeObjects
                /\ call'.selector \in {"kAudioLevelControlPropertyScalarValue",
                                       "kAudioLevelControlPropertyDecibelValue"}))
       => call'.status = "IllegalOperation" /\ UNCHANGED <<driverVars, ringVars>>]_vars

(***************************************************************************)
(* Claims about the device clock (TimeSpec)                                *)
(***************************************************************************)
\* C11: within one running session the sample time and the host time that
\* GetZeroTimeStamp returns never decrease from one call to the next, whatever
\* other calls come between, and consecutive sample times differ by a multiple
\* of the zero-timestamp period.
C11_ZeroTimeStampMonotonic ==
    [][(/\ call'.op = "GetZeroTimeStamp"
        /\ deviceIsRunning'
        /\ lastZeroTimeStamp.valid
        /\ lastZeroTimeStamp.sameSession)
       => /\ call'.outSampleTime >= lastZeroTimeStamp.outSampleTime
          /\ call'.outHostTime >= lastZeroTimeStamp.outHostTime
          /\ (call'.outSampleTime - lastZeroTimeStamp.outSampleTime)
                % kLatency_Frame_Size = 0]_vars

\* C12: the seed GetZeroTimeStamp returns never decreases, and it differs from
\* the seed of the call before whenever the anchor or ticks-per-frame changed
\* in between.
C12_SeedChangesOnDiscontinuity ==
    [][(call'.op = "GetZeroTimeStamp" /\ lastZeroTimeStamp.valid)
       => /\ call'.outSeed >= lastZeroTimeStamp.outSeed
          /\ (\/ anchorHostTime' # lastZeroTimeStamp.anchorHostTime
              \/ ticksPerFrame' # lastZeroTimeStamp.ticksPerFrame)
             => call'.outSeed # lastZeroTimeStamp.outSeed]_vars

\* ---------------------------------------------------------------------------
\* Claims about the plug-in interface (PlugInSpec)
\* ---------------------------------------------------------------------------

\* The count a driver's factory leaves.
InitialRefCount(driver) == IF driver = "surge" THEN 1 ELSE 0

\* The reference count of the loaded driver.
RefCount(driver) == IF driver = "surge" THEN gDriverRefCount ELSE g_ref_count

\* C13: after k AddRef (or successful QueryInterface) calls and k Release
\* calls, each Release preceded by its AddRef, the reference count of either
\* driver is the value its factory left.
C13_BalancedRefCount ==
    \A driver \in {"surge", "variant"} :
      (refHistory[driver].balanced /\ refHistory[driver].adds = refHistory[driver].releases)
         => RefCount(driver) = InitialRefCount(driver)

\* Two references taken (one of them by QueryInterface or AddRef) and both
\* released again, the last call being the second Release.
C13_Witness ==
    /\ call.op = "Release"
    /\ refHistory[loaded].balanced
    /\ refHistory[loaded].adds = 2
    /\ refHistory[loaded].releases = 2
    /\ RefCount(loaded) = InitialRefCount(loaded)

\* C14: a Release that brings the count from positive to zero tears the
\* resources down (the ring is freed; in the variant the shared region is
\* inactive and unlinked), and no step that leaves the count positive tears
\* anything down.
C14_TeardownAtZero ==
    [][/\ (call'.op = "Release" /\ RefCount(loaded) > 0 /\ RefCount(loaded)' = 0)
          => IF loaded = "surge"
                THEN ringBufferFreed'
                ELSE ~sharedRegion'.linked /\ ~sharedRegion'.active
       /\ RefCount(loaded)' > 0
          => /\ ringBufferFreed' = ringBufferFreed
             /\ sharedRegion'.linked = sharedRegion.linked]_vars

\* C15: QueryInterface with a place for the result succeeds, returns the
\* driver and adds one reference for the driver-interface id and the
\* base-object id (the first query after the factory leaves the count at 2);
\* for any other id it answers no-interface, returns null and leaves the count.
C15_QueryInterface ==
    [][(call'.op = "QueryInterface" /\ call'.result # "E_POINTER")
       => IF call'.uuid \in {kAudioServerPlugInDriverInterfaceUUID, iUnknownUUID}
             THEN /\ call'.result = "S_OK"
                  /\ call'.interface = "driver"
                  /\ RefCount(loaded)' = RefCount(loaded) + 1
                  /\ (refHistory[loaded] = NoRefs => RefCount(loaded)' = 2)
             ELSE /\ call'.result = "E_NOINTERFACE"
                  /\ call'.interface = "NULL"
                  /\ RefCount(loaded)' = RefCount(loaded)]_vars

\* C16: WillDoIOOperation answers willDo and willDoInPlace true exactly for
\* write-mix and read-input, willDo false for every other operation, and
\* changes no driver state.
C16_WillDoIOOperation ==
    [][call'.op = "WillDoIOOperation"
       => /\ call'.outWillDo = (call'.operationID \in {"WriteMix", "ReadInput"})
          /\ (call'.outWillDo => call'.outWillDoInPlace)
          /\ UNCHANGED <<driverVars, ringVars, timeVars, plugInVars, threadVars>>]_vars

\* ---------------------------------------------------------------------------
\* Claims about IO sessions (SessionSpec, Spec)
\* ---------------------------------------------------------------------------

\* C17: a StartIO on a stopped device captures the current host time as the
\* anchor, sets the anchor sample time to 0, zeroes the whole ring, sets both
\* positions to 0 and marks the device running; a StartIO on a running device
\* leaves the anchor host time, the ring contents and both positions as they
\* were.
C17_StartIOResetsOnTransition ==
    [][(call'.op = "StartIO" /\ ioClients' = ioClients + 1)
       => IF ~deviceIsRunning
             THEN /\ anchorHostTime' = hostClock
                  /\ anchorSampleTime' = 0
                  /\ ringBuffer' = ZeroRing
                  /\ ringBufferWritePosition' = 0
                  /\ ringBufferReadPosition' = 0
                  /\ deviceIsRunning'
             ELSE UNCHANGED <<anchorHostTime, ringBuffer, ringBufferWritePosition,
                              ringBufferReadPosition>>]_vars

\* A second client has started IO on a running device whose session began
\* earlier on the host clock and whose ring holds samples.
C17_Witness ==
    /\ call.op = "StartIO"
    /\ call.wasRunning
    /\ deviceIsRunning
    /\ 0 < anchorHostTime
    /\ anchorHostTime < hostClock
    /\ ringBuffer # ZeroRing
    /\ ringBufferWritePosition # 0

\* C18: whenever the device is not running, both ring positions are 0 and
\* every sample of the ring is zero.
C18_StoppedRingIsClear ==
    ~deviceIsRunning
       => /\ ringBufferWritePosition = 0
          /\ ringBufferReadPosition = 0
          /\ ringBuffer = ZeroRing

\* C19: in a running session the samples consumed by read-input operations
\* since the session started never exceed the samples produced by write-mix
\* operations.
C19_ReaderBehindWriter ==
    deviceIsRunning => framesRead <= framesWritten

\* ---------------------------------------------------------------------------
\* Claims about the I/O threads (ThreadSpec)
\* ---------------------------------------------------------------------------

FormatSelectors == {"kAudioStreamPropertyVirtualFormat", "kAudioStreamPropertyPhysicalFormat"}

\* The selectors whose value is a list of object ids.
ListSelectors ==
    {"kAudioObjectPropertyOwnedObjects", "kAudioPlugInPropertyDeviceList",
     "kAudioDevicePropertyStreams", "kAudioObjectPropertyControlList"}

\* C21: for each stream and each advertised format, a SetPropertyData of the
\* virtual or physical format succeeds, makes the format's sample rate the
\* current rate, and a GetPropertyData of the format then returns the format
\* that was set.
C21_StreamFormatRoundTrip ==
    (/\ IsCall("SetPropertyData")
     /\ call.objectID \in StreamObjects
     /\ call.selector \in FormatSelectors
     /\ call.inData \in {AvailableFormats[i].mFormat : i \in 1..4})
    => /\ call.status = "NoError"
       /\ sampleRate = call.inData.mSampleRate
       /\ GetPropertyData(call.objectID, call.selector, "Global", "NULL").outData
             = call.inData

\* C26: every object id that a list property returns names an object that
\* exists: HasProperty of its base class is true, and neither
\* GetPropertyDataSize nor GetPropertyData of its base class answers
\* bad-object.
C26_PublishedObjectsExist ==
    (/\ IsCall("GetPropertyData")
     /\ call.selector \in ListSelectors
     /\ call.status = "NoError")
    => \A i \in DOMAIN call.outData :
         /\ HasProperty(call.outData[i], "kAudioObjectPropertyBaseClass")
         /\ GetPropertyDataSize(call.outData[i], "kAudioObjectPropertyBaseClass",
                                "Global").status # "BadObject"
         /\ GetPropertyData(call.outData[i], "kAudioObjectPropertyBaseClass",
                            "Global", "NULL").status # "BadObject"

\* ---------------------------------------------------------------------------
\* Claims about the level controls (VolumeSpec)
\* ---------------------------------------------------------------------------

\* C25: in every reachable state the input and the output volume scalar lie
\* in [0, 1], whatever scalar or decibel values have been set.
C25_VolumeInRange ==
    /\ 0 <= inputVolume /\ inputVolume <= F_ONE
    /\ 0 <= outputVolume /\ outputVolume <= F_ONE

\* ---------------------------------------------------------------------------
\* Claims about zero-timestamp alignment (TimeSpec)
\* ---------------------------------------------------------------------------

\* C27: a GetZeroTimeStamp result of a running session is a rounded-down
\* boundary: the sample time is a multiple of the zero-timestamp period that
\* does not exceed the frames elapsed since the anchor, and the host time is
\* anchorHostTime + sampleTime * ticksPerFrame and does not exceed the current
\* host time.
C27_ZeroTimeStampAligned ==
    (call.op = "GetZeroTimeStamp" /\ deviceIsRunning)
    => /\ call.outSampleTime >= 0
       /\ call.outSampleTime
             % GetPropertyData(kObjectID_Device, "kAudioDevicePropertyZeroTimeStampPeriod",
                               "Global", "NULL").outData = 0
       /\ call.outSampleTime * ticksPerFrame <= hostClock - anchorHostTime
       /\ call.outHostTime = anchorHostTime + call.outSampleTime * ticksPerFrame
       /\ call.outHostTime <= hostClock

\* A timestamp of a running session at another rate than the default one,
\* two periods or more after the anchor and strictly before the current host
\* time.
C27_Witness ==
    /\ call.op = "GetZeroTimeStamp"
    /\ deviceIsRunning
    /\ sampleRate # kSampleRate_Default
    /\ anchorHostTime > 0
    /\ call.outSampleTime >= 2 * kLatency_Frame_Size
    /\ call.outHostTime < hostClock

\* ---------------------------------------------------------------------------
\* Claims about overrun (Spec)
\* ---------------------------------------------------------------------------

\* The value the ring holds for what the host last put at a slot.
Newest(j) == IF shadow[j].n < 0 THEN 0 ELSE FMul(shadow[j].s, shadow[j].ov)

\* C28: every ring slot holds the sample most recently written to it, also
\* when write-mix has run more than one capacity ahead of the reader, and a
\* read input returns, at each of its positions, that newest sample (times the
\* input volume) and not the older sample it replaced.
C28_OverwriteOnOverrun ==
    /\ \A j \in Slots : ringBuffer[j] = Newest(j)
    /\ IsReadInput
       => \A i \in 1..Len(call.ioMainBuffer) :
            call.ioMainBuffer[i]
               = FMul(Newest((call.first + i - 1) % kRingBufferSize), call.inputVolume)

\* A read whose first sample had been lapped: the slot it reads holds the
\* sample written one capacity later, and that is what the read returns.
C28_Witness ==
    /\ IsReadInput
    /\ deviceIsRunning
    /\ framesWritten * kChannelsPerFrame > call.first + kRingBufferSize
    /\ ReadSource(1).n = call.first + kRingBufferSize
    /\ call.ioMainBuffer[1] = FMul(FMul(ReadSource(1).s, ReadSource(1).ov), call.inputVolume)
    /\ call.ioMainBuffer[1] # 0

(***************************************************************************)
(* Claims about the shared region of the variant and the ring indices      *)
(***************************************************************************)
\* C22: in the shared-memory variant, a successful initialisation leaves the
\* region header at sample rate 48000, one channel, frame size 4, inactive,
\* both positions 0; StartIO makes the region active; and every I/O cycle
\* done while the region is active, the host's DoIOOperation as well as the
\* IOProc, advances the write position by the frames of the cycle.
C22_RegionHeaderAndProgress ==
    [][loaded = "variant" =>
         /\ (call'.op = "Initialize" /\ call'.result = "driver_ref") =>
               /\ sharedRegion'.sample_rate = 48000
               /\ sharedRegion'.channels = 1
               /\ sharedRegion'.frame_size = 4
               /\ ~sharedRegion'.active
               /\ sharedRegion'.write_position = 0
               /\ sharedRegion'.read_position = 0
         /\ (call'.op = "StartIO" /\ sharedRegion.linked) => sharedRegion'.active
         /\ (call'.op = "DoIOOperation" /\ sharedRegion.active) =>
               sharedRegion'.write_position =
                  (sharedRegion.write_position + call'.ioBufferFrameSize)
                     % RING_BUFFER_FRAMES
         /\ (call'.op = "IOProc" /\ sharedRegion.active) =>
               sharedRegion'.write_position =
                  (sharedRegion.write_position + call'.frame_count)
                     % RING_BUFFER_FRAMES]_vars

\* C23: in the shared-memory variant the read position changes only in a
\* step of the external reader; a write of the IOProc completes with no
\* error whatever the read position is, leaves the read position alone, and
\* on an active region moves the write position by its frame count.
C23_WriterIgnoresReader ==
    [][loaded = "variant" =>
         /\ (sharedRegion'.read_position # sharedRegion.read_position) =>
               call'.op = "ExternalRead"
         /\ call'.op = "IOProc" =>
               /\ call'.status = "NoError"
               /\ sharedRegion'.read_position = sharedRegion.read_position
               /\ sharedRegion.active =>
                     sharedRegion'.write_position =
                        (sharedRegion.write_position + call'.frame_count)
                           % RING_BUFFER_FRAMES]_vars

\* A write of more frames than the shared ring holds has gone over the
\* reader's position, which is where the reader left it.
C23_Witness ==
    /\ loaded = "variant"
    /\ call.op = "IOProc"
    /\ call.frame_count > RING_BUFFER_FRAMES
    /\ sharedRegion.active
    /\ sharedRegion.read_position = RING_BUFFER_FRAMES - 1
    /\ sharedRegion.write_position # sharedRegion.read_position

\* C30: in every reachable state the read and the write position of the
\* in-process ring are slots of it, and the write position of the shared
\* ring is a slot of the shared ring, whatever the frame counts of the I/O
\* operations were.
C30_IndicesAreSlots ==
    /\ ringBufferWritePosition \in 0..(kRingBufferSize - 1)
    /\ ringBufferReadPosition \in 0..(kRingBufferSize - 1)
    /\ sharedRegion.write_position \in 0..(RING_BUFFER_FRAMES - 1)

\* A block of more samples than the in-process ring holds has been written.
C30_Witness ==
    /\ loaded = "surge"
    /\ call.op = "DoIOOperation"
    /\ call.operationID = "WriteMix"
    /\ call.ioBufferFrameSize * kChannelsPerFrame > kRingBufferSize
    /\ ringBufferWritePosition # 0

\* C24: no I/O call and no property call goes through a resource whose
\* creation failed: the loopback driver makes no access through a NULL ring
\* pointer, and the variant leaves the region alone while none is mapped.
C24_NoUseOfMissingResource ==
    /\ call.op # "NullRingUse"
    /\ (loaded = "variant" /\ g_driver_state.shared_memory = "NULL")
          => sharedRegion = NoRegion

\* The thread is between its lock and its unlock.
InBlock(t) == thread[t].pc \in {"loop", "unlock"}

\* What the first c.i steps of the block of call c, and nothing else, make
\* of the positions the block found; for a read, what it has fetched by then
\* from the ring as it is; for a write and a reset, the slots stored so far.
BlockProgress(c) ==
    CASE c.operationID = "WriteMix" ->
           /\ ringBufferWritePosition = (c.at.w + c.i) % kRingBufferSize
           /\ ringBufferReadPosition = c.at.r
           /\ \A k \in 0..(c.i - 1) :
                 ringBuffer[(c.at.w + k) % kRingBufferSize] = FMul(F_ONE, outputVolume)
      [] c.operationID = "ReadInput" ->
           /\ ringBufferWritePosition = c.at.w
           /\ ringBufferReadPosition = (c.at.r + c.i) % kRingBufferSize
           /\ c.seen = ReadLoop(ringBuffer, c.at.r, c.i, inputVolume).buffer
      [] OTHER ->
           /\ ringBufferWritePosition = IF c.i > kRingBufferSize THEN 0 ELSE c.at.w
           /\ ringBufferReadPosition = IF c.i > kRingBufferSize + 1 THEN 0 ELSE c.at.r
           /\ \A j \in Slots : j < c.i => ringBuffer[j] = 0

\* C29: the block copy of a write-mix, the block copy of a read-input and
\* the reset of StartIO exclude each other.  At most one thread is between
\* its lock and its unlock; from the first step of a block to its unlock the
\* positions and the slots are what this block alone has made of what it
\* found, so that the positions after the blocks are those of running them
\* one after the other in the order of their locks; and every step that
\* changes the ring or a position is a step of the thread that holds the
\* mutex, so that a read block sees no part of a write block or of a reset.
C29_BlockCopiesExclude ==
    /\ [](\A t, u \in Threads : (InBlock(t) /\ InBlock(u)) => t = u)
    /\ [](\A t \in Threads :
            (InBlock(t) /\ thread[t].i > 0) => BlockProgress(thread[t]))
    /\ [][ringVars' # ringVars =>
            \E t \in Threads : /\ ringBufferMutex = t
                               /\ thread[t].pc = "loop"
                               /\ thread'[t] # thread[t]]_vars

\* A read block is half done over a ring that holds written samples, while a
\* write-mix of the other I/O thread and a StartIO wait for the mutex.
C29_Witness ==
    /\ thread["io1"].pc = "loop"
    /\ thread["io1"].operationID = "ReadInput"
    /\ thread["io1"].i > 0
    /\ thread["io1"].seen # [k \in 1..thread["io1"].i |-> 0]
    /\ thread["io2"].pc = "lock"
    /\ thread["io2"].operationID = "WriteMix"
    /\ thread["control"].pc = "lock"

(***************************************************************************)
(* Claims about the writer of the shared ring and the capture flag         *)
(***************************************************************************)
\* The frames of a write of F frames from position w that land on slot j.
FramesOnSlot(w, F, j) == {i \in 0..(F - 1) : (w + i) % RING_BUFFER_FRAMES = j}

\* The largest member of a non-empty set of numbers.
Latest(S) == CHOOSE i \in S : \A i2 \in S : i2 <= i

\* C31: a write of F stereo frames to an active region stores the mean of
\* left and right of frame i at slot (w + i) mod RING_BUFFER_FRAMES, for i
\* from 0 to F - 1 in this order, leaves every other slot as it was and sets
\* write_position to (w + F) mod RING_BUFFER_FRAMES, w being the position
\* before; a write to an inactive region succeeds and leaves the position
\* and the slots as they were.
C31_WriteToRingBuffer ==
    [][(loaded = "variant" /\ call'.op = "IOProc" /\ sharedRegion.linked) =>
          LET w == sharedRegion.write_position
              F == call'.frame_count
              data == call'.in_input_data
          IN  /\ call'.status = "NoError"
              /\ IF sharedRegion.active
                    THEN /\ \A j \in 0..(RING_BUFFER_FRAMES - 1) :
                              sharedRegion'.buffer[j] =
                                 IF FramesOnSlot(w, F, j) = {}
                                    THEN sharedRegion.buffer[j]
                                    ELSE LET i == Latest(FramesOnSlot(w, F, j))
                                         IN  (data[2 * i + 1] + data[2 * i + 2]) \div 2
                         /\ sharedRegion'.write_position = (w + F) % RING_BUFFER_FRAMES
                    ELSE /\ sharedRegion'.buffer = sharedRegion.buffer
                         /\ sharedRegion'.write_position = w]_vars

\* An active region has taken a write of two frames or more that has
\* wrapped round the end of the ring, and holds two different samples.
C31_Witness ==
    /\ loaded = "variant"
    /\ call.op = "IOProc"
    /\ call.frame_count >= 2
    /\ sharedRegion.active
    /\ sharedRegion.write_position < call.frame_count
    /\ sharedRegion.write_position # 0
    /\ \E j, k \in 0..(RING_BUFFER_FRAMES - 1) :
          /\ sharedRegion.buffer[j] # 0
          /\ sharedRegion.buffer[k] # 0
          /\ sharedRegion.buffer[j] # sharedRegion.buffer[k]

\* C32: in the shared-memory variant, once the region has been created, the
\* active flag of the region equals is_capture_active of the driver, and the
\* running property reports this value, whatever StartIO, StopIO,
\* DestroyDevice and SetPropertyData calls have been made.
C32_ActiveIsCaptureActive ==
    (loaded = "variant" /\ sharedRegion.linked) =>
       /\ sharedRegion.active = g_driver_state.is_capture_active
       /\ call.op = "GetPropertyData" =>
             call.out_data = (IF sharedRegion.active THEN 1 ELSE 0)

\* With the region in place and the device created, the running flag has
\* been set through the property with a value other than 1, and the region
\* is active.
C32_Witness ==
    /\ loaded = "variant"
    /\ sharedRegion.linked
    /\ call.op = "SetPropertyData"
    /\ call.status = "NoError"
    /\ call.is_running = 2
    /\ sharedRegion.active
    /\ g_driver_state.is_device_created

(***************************************************************************)
(* Claims about the size call and the data call of a property              *)
(***************************************************************************)
\* C33: GetPropertyDataSize and GetPropertyData succeed for the same objects
\* and selectors, and where they succeed the size the first reports is the
\* size the second writes to outDataSize, for every scope.
C33_SizeAgreesWithData ==
    call.op = "GetPropertyData" =>
       LET size == GetPropertyDataSize(call.objectID, call.selector, call.scope)
       IN  /\ (size.status = "NoError") <=> (call.status = "NoError")
           /\ (size.status = "NoError" /\ call.status = "NoError") =>
                 size.outDataSize = call.outDataSize

(***************************************************************************)
(* Claims about the life of the loopback driver                            *)
(***************************************************************************)
\* C34: while the reference count is positive the ring exists (and with it
\* the mutex, which is destroyed where the ring is freed), and no StartIO
\* or DoIOOperation goes through a freed ring while the count is positive.
C34_RingLivesWhileReferenced ==
    /\ gDriverRefCount > 0 => ~ringBufferFreed
    /\ call.op = "NullRingUse" => gDriverRefCount = 0

\* C35: CleanupDriverState runs at most once after the factory has
\* initialised the driver, whatever Release calls are made, those at a count
\* of zero included.
C35_TeardownAtMostOnce == refHistory.surge.teardowns <= 1

(***************************************************************************)
(* Claims about the Windows speaker capture client (CaptureSpec)           *)
(***************************************************************************)
\* C36: at most one capture thread is alive at any time; start() spawns a
\* thread only when isCapturing_ is clear, and start() while isCapturing_ is
\* set returns false, spawns nothing and changes nothing.
C36_OneCaptureThread ==
    /\ [](Cardinality(LiveThreads) <= 1)
    /\ [][/\ captureThreads' # captureThreads /\ js' # js => ~isCapturing_
          /\ (js.pc = "idle" /\ isCapturing_ /\ js' # js /\ js'.op = "Start")
                => /\ js'.result = "false"
                   /\ js'.pc = "idle"
                   /\ UNCHANGED <<isCapturing_, captureThread_,
                                  captureThreads, tsfnCalls>>]_vars

\* C37: isCapturing_ is set only while a capture thread is alive: a capture
\* thread that has returned on its own, after a failed set-up or a failed
\* call in the capture loop, has left isCapturing_ clear.
C37_ActiveOnlyWhileAlive == isCapturing_ => LiveThreads # {}

\* C38: std::terminate is never reached: start() does not assign to a
\* captureThread_ that is still joinable, and the object is not destroyed
\* while captureThread_ is joinable.
C38_JoinedBeforeReuse == ~Terminated

\* C39: stop() called while capturing returns only when no capture thread is
\* alive; from its return to the next start() that spawns a thread no
\* callback is queued; stop() when isCapturing_ is clear changes nothing.
C39_StopJoins ==
    [][/\ (js'.stopped /\ ~js.stopped) => LiveThreads' = {}
       /\ tsfnCalls' # tsfnCalls => ~js.stopped
       /\ (js.pc = "idle" /\ ~isCapturing_ /\ js' # js /\ js'.op = "Stop")
             => /\ js'.pc = "idle"
                /\ js'.stopped = js.stopped
                /\ UNCHANGED <<isCapturing_, captureThread_, captureThreads,
                               tsfnCalls>>]_vars

\* A stop() that joined a thread which had queued callbacks has returned.
C39_Witness ==
    /\ js.stopped
    /\ js.op = "Stop"
    /\ tsfnCalls > 0
    /\ captureThread_ = NotAThread
    /\ \E id \in CaptureThreadIds : captureThreads[id] = "done"

====
